---- MODULE Spec2Model ----
(***************************************************************************)
(* Conversation memory and buyer-journey engine of rusty-enhanced-bot.     *)
(*                                                                         *)
(* EnhancedMemoryManager (src/enhanced_memory_manager.py) keeps one record *)
(* per user id in the table user_memories; the /chat handler               *)
(* (src/app_enhanced_rusty.py) loads the record, updates a working copy    *)
(* and upserts it.  Time is counted in whole minutes.  A user utterance is *)
(* a record holding its text and what the code's tests read from it: the   *)
(* code keywords that occur in the lower-cased text (has), the number of   *)
(* question marks (q), the number of whitespace-separated words (n), the   *)
(* size the size pattern finds (size), whether it holds a "$" (dollar) and *)
(* what the contact patterns find in it (email, phone, name).              *)
(* A python dict is a function whose DOMAIN is the set of keys present; an *)
(* optional value (None or a value) is a sequence of length 0 or 1.        *)
(* The columns conversation_summary, preferences and render_details are    *)
(* written back exactly as loaded by every operation and are left out.     *)
(***************************************************************************)
EXTENDS Integers, Sequences, FiniteSets, TLC

VARIABLES now,      \* the clock, in minutes
          mem,      \* a working record on which the manager's methods are called
          store,    \* table user_memories: user id -> <<>> (no row) or <<row>>
          local,    \* per request in flight: its working copy and inputs
          pc,       \* per request in flight: its position in the handler
          last,     \* what the most recent operation was and what it returned
          hist,     \* history of the run (gate results, issued CTAs, counters)
          session   \* per client: the user_id of its session cookie, or None

vars == <<now, mem, store, local, pc, last, hist, session>>

---------------------------------------------------------------------------
(* Bounds of the model *)

\* cap on the number of operations of one run of Spec
MaxSteps == 4
\* cap on the number of chat turns of one run of SpecChat
MaxTurns == 4
\* cap on the number of requests started in one run of SpecConc
MaxRequests == 3
\* cap on the number of requests started in one run of SpecStore
MaxStoreRequests == 2
\* the cap max_interactions on the interactions a record keeps (a constructor
\* argument of the manager, 15 as deployed), scaled down
MaxInteractions == 4
\* cap on the number of columns of a stored row that are null or missing
MaxNulls == 2

---------------------------------------------------------------------------
(* Program constants *)

\* timedelta(minutes=5) of the cooldown test
CooldownMinutes == 5
\* timedelta(hours=1) of the rate cap, in minutes
RateWindowMinutes == 60
\* len(recent_attempts) >= 2
RateCap == 2

---------------------------------------------------------------------------
(* Inputs: user utterances *)

UPrice ==
  [text |-> "What's the price for a 12x24 with a tanning ledge? My backyard is small",
   has |-> {"backyard", "led", "ledge", "price", "small", "tanning ledge", "yard"},
   q |-> 1, n |-> 14, size |-> "12x24", dollar |-> FALSE,
   email |-> <<>>, phone |-> <<>>, name |-> <<>>]

UOk ==
  [text |-> "ok",
   has |-> {},
   q |-> 0, n |-> 1, size |-> "none", dollar |-> FALSE,
   email |-> <<>>, phone |-> <<>>, name |-> <<>>]

UVisit ==
  [text |-> "When can we schedule a visit?",
   has |-> {"schedule", "visit", "when", "when can"},
   q |-> 1, n |-> 6, size |-> "none", dollar |-> FALSE,
   email |-> <<>>, phone |-> <<>>, name |-> <<>>]

UDeep ==
  [text |-> "What is the cost and size? What is the process and timeline for each feature you offer on a typical pool build in Oklahoma today?",
   has |-> {"cost", "feature", "process", "size", "timeline"},
   q |-> 2, n |-> 25, size |-> "none", dollar |-> FALSE,
   email |-> <<>>, phone |-> <<>>, name |-> <<>>]

UMore ==
  [text |-> "Tell me more about cocktail pools? What else is there?",
   has |-> {"cocktail", "cocktail pool", "here"},
   q |-> 2, n |-> 10, size |-> "none", dollar |-> FALSE,
   email |-> <<>>, phone |-> <<>>, name |-> <<>>]

Utterances == {UPrice, UOk, UVisit, UDeep, UMore}

URelax ==
  [text |-> "A 14x28 heated pool with a tanning ledge to relax and unwind",
   has |-> {"heated", "led", "ledge", "relax", "tanning ledge", "unwind"},
   q |-> 0, n |-> 12, size |-> "14x28", dollar |-> FALSE,
   email |-> <<>>, phone |-> <<>>, name |-> <<>>]

UFamily ==
  [text |-> "It is for the kids, maybe a custom pool with jets",
   has |-> {"custom", "jets", "kids"},
   q |-> 0, n |-> 11, size |-> "none", dollar |-> FALSE,
   email |-> <<>>, phone |-> <<>>, name |-> <<>>]

UNameEmail ==
  [text |-> "I'm Dana, my email is dana@example.com",
   has |-> {},
   q |-> 0, n |-> 6, size |-> "none", dollar |-> FALSE,
   email |-> <<"dana@example.com">>, phone |-> <<>>, name |-> <<"Dana">>]

UPhonePhoto ==
  [text |-> "My phone is 555-123-4567 and here is the photo, sent it",
   has |-> {"here", "photo", "sent"},
   q |-> 0, n |-> 11, size |-> "none", dollar |-> FALSE,
   email |-> <<>>, phone |-> <<"555-123-4567">>, name |-> <<>>]

UResend ==
  [text |-> "Call me Sam, use sam@other.org and 555-999-0000, picture attached",
   has |-> {"attached", "picture"},
   q |-> 0, n |-> 9, size |-> "none", dollar |-> FALSE,
   email |-> <<"sam@other.org">>, phone |-> <<"555-999-0000">>, name |-> <<"Sam">>]

\* the empty message and a message of spaces: n, the number of words split()
\* finds, is 0 exactly where strip() leaves the empty string
UEmpty ==
  [text |-> "",
   has |-> {},
   q |-> 0, n |-> 0, size |-> "none", dollar |-> FALSE,
   email |-> <<>>, phone |-> <<>>, name |-> <<>>]

UBlank ==
  [text |-> "   ",
   has |-> {},
   q |-> 0, n |-> 0, size |-> "none", dollar |-> FALSE,
   email |-> <<>>, phone |-> <<>>, name |-> <<>>]

BlankUtterances == {UEmpty, UBlank}

\* utterances that carry contact fields
ContactUtterances == {UNameEmail, UPhonePhoto, UResend}

\* utterances that set and set again the key facts
FactUtterances == {UPrice, URelax, UFamily, UMore}

\* every utterance of the model
AllUtterances == Utterances \cup FactUtterances \cup ContactUtterances \cup BlankUtterances

\* any(word in message_lower for word in kws)
AnyIn(u, kws) == (u.has \cap kws) # {}

---------------------------------------------------------------------------
(* Python dicts and optionals *)

Put(d, k, v) == [x \in (DOMAIN d) \cup {k} |-> IF x = k THEN v ELSE d[x]]

EmptyDict == [x \in {} |-> TRUE]

None == <<>>

Some(v) == <<v>>

Range(s) == {s[i] : i \in 1..Len(s)}

\* s[-k:]
LastK(s, k) == IF Len(s) > k THEN SubSeq(s, Len(s) - k + 1, Len(s)) ELSE s

\* s[:k]
FirstK(s, k) == IF Len(s) > k THEN SubSeq(s, 1, k) ELSE s

Min(a, b) == IF a < b THEN a ELSE b

Max(a, b) == IF a > b THEN a ELSE b

---------------------------------------------------------------------------
(* The record *)

Stages == <<"browsing", "interested", "considering", "ready">>

\* position of a stage in the order browsing < interested < considering < ready
StageRank(s) == CHOOSE i \in 1..Len(Stages) : Stages[i] = s

default_memory ==
  [interactions |-> <<>>,
   key_facts |-> EmptyDict,
   buyer_stage |-> "browsing",
   engagement_level |-> 1,
   render_requested |-> FALSE,
   render_status |-> "None",
   contact_info |-> EmptyDict,
   cta_attempts |-> <<>>,
   last_cta_attempt |-> None]

---------------------------------------------------------------------------
(* _extract_key_facts *)

FocusOf(u) ==
  IF AnyIn(u, {"relax", "relaxing", "peaceful", "quiet", "unwind"}) THEN Some("relaxation")
  ELSE IF AnyIn(u, {"entertain", "entertaining", "party", "friends", "gather", "host"})
       THEN Some("entertaining")
  ELSE IF AnyIn(u, {"family", "kids", "children", "grandkids"}) THEN Some("family")
  ELSE IF "both" \in u.has /\ AnyIn(u, {"relax", "entertain"}) THEN Some("both")
  ELSE None

BudgetSignals ==
  {"budget", "cost", "price", "expensive", "affordable", "cheap", "financing", "payment"}

PoolTypeOf(u) ==
  IF AnyIn(u, {"cocktail pool", "cocktail"}) THEN Some("cocktail")
  ELSE IF "semi" \in u.has /\ "ground" \in u.has THEN Some("semi-inground")
  ELSE IF "custom" \in u.has THEN Some("custom")
  ELSE None

FeatureNames ==
  <<"tanning ledge", "wraparound bench", "lighting", "heating", "jets", "fountains">>

feature_map(name) ==
  CASE name = "tanning ledge" -> {"tanning ledge", "tanning shelf", "sun shelf", "ledge"}
    [] name = "wraparound bench" -> {"bench", "seating", "wraparound", "built-in seating"}
    [] name = "lighting" -> {"lighting", "lights", "underwater lights", "led"}
    [] name = "heating" -> {"heated", "heating", "heater", "warm", "year-round"}
    [] name = "jets" -> {"jets", "hydrotherapy", "massage", "spa jets"}
    [] name = "fountains" -> {"fountain", "water feature", "bubblers", "spillover"}

\* a variant of the loop without the test feature_name not in features
RECURSIVE AddFeatures_repeat(_, _, _)
AddFeatures_repeat(features, u, i) ==
  IF i > Len(FeatureNames) THEN features
  ELSE AddFeatures_repeat(IF AnyIn(u, feature_map(FeatureNames[i]))
                          THEN Append(features, FeatureNames[i]) ELSE features,
                          u, i + 1)

\* the loop over feature_map.items(), from entry i on
RECURSIVE AddFeatures(_, _, _)
AddFeatures(features, u, i) ==
  IF i > Len(FeatureNames) THEN features
  ELSE LET name == FeatureNames[i]
       IN AddFeatures(IF AnyIn(u, feature_map(name)) /\ name \notin Range(features)
                      THEN Append(features, name) ELSE features,
                      u, i + 1)

TimelineSignals == {"timeline", "when", "how long", "schedule", "start", "soon", "ready"}

SpaceSignals == {"space", "yard", "backyard", "small", "tight", "fit", "room"}

extract_key_facts(kf, u) ==
  LET k1 == IF FocusOf(u) # None THEN Put(kf, "focus", FocusOf(u)[1]) ELSE kf
      k2 == IF AnyIn(u, BudgetSignals) \/ u.dollar
            THEN Put(k1, "budget_conscious", TRUE) ELSE k1
      k3 == IF PoolTypeOf(u) # None THEN Put(k2, "pool_type", PoolTypeOf(u)[1]) ELSE k2
      k4 == IF u.size # "none" THEN Put(k3, "preferred_size", u.size) ELSE k3
      old == IF "features" \in DOMAIN k4 THEN k4["features"] ELSE <<>>
      k5 == Put(k4, "features", AddFeatures(old, u, 1))
      k6 == IF AnyIn(u, TimelineSignals) THEN Put(k5, "timeline_interest", TRUE) ELSE k5
      k7 == IF AnyIn(u, SpaceSignals) THEN Put(k6, "space_concerns", TRUE) ELSE k6
  IN k7

---------------------------------------------------------------------------
(* _update_buyer_stage and _update_engagement_level *)

SpecificSignals ==
  {"size", "cost", "price", "timeline", "process", "how long", "when", "schedule"}

CommitmentSignals == {"ready", "interested", "want", "need", "planning", "thinking about"}

\* a variant that reads the stage off the utterance alone, whatever the stage was
update_buyer_stage_stateless(stage, kf, u) ==
  IF AnyIn(u, {"ready", "let's do", "schedule", "visit", "consult"}) THEN "ready"
  ELSE IF AnyIn(u, {"timeline", "schedule", "when can", "how soon"}) THEN "considering"
  ELSE IF AnyIn(u, SpecificSignals \cup CommitmentSignals) THEN "interested"
  ELSE "browsing"

\* a variant whose three stage tests are separate ifs, each reading the stage the
\* one before it left
update_buyer_stage_cascade(stage, kf, u) ==
  LET s1 == IF stage = "browsing" /\ AnyIn(u, SpecificSignals \cup CommitmentSignals)
            THEN "interested" ELSE stage
      s2 == IF s1 = "interested"
               /\ (AnyIn(u, {"timeline", "schedule", "when can", "how soon"})
                   \/ Cardinality(DOMAIN kf) >= 3)
            THEN "considering" ELSE s1
  IN IF s2 = "considering" /\ AnyIn(u, {"ready", "let's do", "schedule", "visit", "consult"})
     THEN "ready" ELSE s2

\* the stage after the utterance, given the key facts as they are after extraction
update_buyer_stage(stage, kf, u) ==
  IF stage = "browsing"
  THEN IF AnyIn(u, SpecificSignals) THEN "interested"
       ELSE IF AnyIn(u, CommitmentSignals) THEN "interested"
       ELSE stage
  ELSE IF stage = "interested"
  THEN IF AnyIn(u, {"timeline", "schedule", "when can", "how soon"}) THEN "considering"
       ELSE IF Cardinality(DOMAIN kf) >= 3 THEN "considering"
       ELSE stage
  ELSE IF stage = "considering"
  THEN IF AnyIn(u, {"ready", "let's do", "schedule", "visit", "consult"}) THEN "ready"
       ELSE stage
  ELSE stage

EngagementTerms == {"size", "cost", "feature", "timeline", "process"}

\* engagement_score in twentieths: min(q*0.5, 1) + min(terms*0.3, 1) + min(n/20, 1).
\* The float sum and int() of the code agree with this exact value for every
\* level 1..5, q <= 4, terms <= 5 and n <= 44.
EngagementScore20(u) ==
  Min(10 * u.q, 20) + Min(6 * Cardinality(u.has \cap EngagementTerms), 20) + Min(u.n, 20)

\* a variant without the min(5, ...) cap
update_engagement_level_uncapped(level, u) ==
  Max(level, level + (EngagementScore20(u) \div 20))

\* a variant that rounds the score to the nearest integer
update_engagement_level_rounded(level, u) ==
  Min(5, Max(level, level + ((EngagementScore20(u) + 10) \div 20)))

update_engagement_level(level, u) ==
  Min(5, Max(level, level + (EngagementScore20(u) \div 20)))

---------------------------------------------------------------------------
(* add_interaction *)

\* a variant that prunes with [:max_interactions]
add_interaction_keep_first(m, u, bot, t) ==
  LET ints == Append(m.interactions, [timestamp |-> t, user |-> u.text, bot |-> bot])
      kept == IF Len(ints) > MaxInteractions THEN SubSeq(ints, 1, MaxInteractions) ELSE ints
      kf == extract_key_facts(m.key_facts, u)
  IN [m EXCEPT !.interactions = kept,
               !.key_facts = kf,
               !.buyer_stage = update_buyer_stage(m.buyer_stage, kf, u),
               !.engagement_level = update_engagement_level(m.engagement_level, u)]

add_interaction(m, u, bot, t) ==
  LET ints == Append(m.interactions, [timestamp |-> t, user |-> u.text, bot |-> bot])
      kept == IF Len(ints) > MaxInteractions THEN LastK(ints, MaxInteractions) ELSE ints
      kf == extract_key_facts(m.key_facts, u)
  IN [m EXCEPT !.interactions = kept,
               !.key_facts = kf,
               !.buyer_stage = update_buyer_stage(m.buyer_stage, kf, u),
               !.engagement_level = update_engagement_level(m.engagement_level, u)]

---------------------------------------------------------------------------
(* should_attempt_cta and record_cta_attempt *)

\* a variant with timedelta(seconds=5) for the cooldown
CooldownRefuses_seconds(m, t) ==
  m.last_cta_attempt # None /\ (t - m.last_cta_attempt[1]) * 60 < CooldownMinutes

\* datetime.now() - last_cta_time < timedelta(minutes=5)
CooldownRefuses(m, t) ==
  m.last_cta_attempt # None /\ t - m.last_cta_attempt[1] < CooldownMinutes

recent_attempts(m, t) ==
  {i \in 1..Len(m.cta_attempts) : t - m.cta_attempts[i].timestamp < RateWindowMinutes}

\* a variant with len(recent_attempts) > 2
RateCapRefuses_above(m, t) == Cardinality(recent_attempts(m, t)) > RateCap

RateCapRefuses(m, t) == Cardinality(recent_attempts(m, t)) >= RateCap

\* a variant with engagement_level > 3 and > 2 for the thresholds
StageRule_strict(m) ==
  IF m.buyer_stage \in {"considering", "ready"} /\ m.engagement_level > 3
  THEN <<TRUE, "consult">>
  ELSE IF /\ m.buyer_stage = "interested"
          /\ m.engagement_level > 2
          /\ "space_concerns" \in DOMAIN m.key_facts
          /\ m.key_facts["space_concerns"]
  THEN <<TRUE, "render">>
  ELSE IF Len(m.interactions) >= 4 /\ m.engagement_level > 3
  THEN <<TRUE, "consult">>
  ELSE <<FALSE, "None">>

\* the rules after the two refusals
StageRule(m) ==
  IF m.buyer_stage \in {"considering", "ready"} /\ m.engagement_level >= 3
  THEN <<TRUE, "consult">>
  ELSE IF /\ m.buyer_stage = "interested"
          /\ m.engagement_level >= 2
          /\ "space_concerns" \in DOMAIN m.key_facts
          /\ m.key_facts["space_concerns"]
  THEN <<TRUE, "render">>
  ELSE IF Len(m.interactions) >= 4 /\ m.engagement_level >= 3
  THEN <<TRUE, "consult">>
  ELSE <<FALSE, "None">>

should_attempt_cta(m, t) ==
  IF CooldownRefuses(m, t) THEN <<FALSE, "None">>
  ELSE IF RateCapRefuses(m, t) THEN <<FALSE, "None">>
  ELSE StageRule(m)

\* responses given to record_cta_attempt: the text, response.lower() and the
\* keywords that occur in it
RYes == [text |-> "Yes", lower |-> "yes", has |-> {"yes"}]

RNotYet == [text |-> "not yet", lower |-> "not yet", has |-> {}]

RPending == [text |-> "pending", lower |-> "pending", has |-> {}]

Responses == {RYes, RNotYet, RPending}

Affirmative(response) == AnyIn(response, {"yes", "sure", "okay"})

\* a variant that appends the attempt and leaves last_cta_attempt as it was
record_cta_attempt_no_stamp(m, cta_type, response, t) ==
  LET m1 == [m EXCEPT !.cta_attempts =
                        Append(@, [timestamp |-> t, type |-> cta_type,
                                   response |-> response.lower])]
  IN IF Affirmative(response)
     THEN IF cta_type = "consult" THEN [m1 EXCEPT !.buyer_stage = "ready"]
          ELSE IF cta_type = "render"
               THEN [m1 EXCEPT !.render_requested = TRUE, !.render_status = "info_needed"]
               ELSE m1
     ELSE m1

\* a variant whose render branch sets render_requested and leaves render_status
record_cta_attempt_flag_only(m, cta_type, response, t) ==
  LET m1 == [m EXCEPT !.cta_attempts =
                        Append(@, [timestamp |-> t, type |-> cta_type,
                                   response |-> response.lower]),
                      !.last_cta_attempt = Some(t)]
  IN IF Affirmative(response)
     THEN IF cta_type = "consult" THEN [m1 EXCEPT !.buyer_stage = "ready"]
          ELSE IF cta_type = "render" THEN [m1 EXCEPT !.render_requested = TRUE]
               ELSE m1
     ELSE m1

\* a variant that applies the outcome whatever the response says
record_cta_attempt_unconditional(m, cta_type, response, t) ==
  LET m1 == [m EXCEPT !.cta_attempts =
                        Append(@, [timestamp |-> t, type |-> cta_type,
                                   response |-> response.lower]),
                      !.last_cta_attempt = Some(t)]
  IN IF cta_type = "consult" THEN [m1 EXCEPT !.buyer_stage = "ready"]
     ELSE IF cta_type = "render"
          THEN [m1 EXCEPT !.render_requested = TRUE, !.render_status = "info_needed"]
          ELSE m1

record_cta_attempt(m, cta_type, response, t) ==
  LET m1 == [m EXCEPT !.cta_attempts =
                        Append(@, [timestamp |-> t, type |-> cta_type,
                                   response |-> response.lower]),
                      !.last_cta_attempt = Some(t)]
  IN IF Affirmative(response)
     THEN IF cta_type = "consult" THEN [m1 EXCEPT !.buyer_stage = "ready"]
          ELSE IF cta_type = "render"
               THEN [m1 EXCEPT !.render_requested = TRUE, !.render_status = "info_needed"]
               ELSE m1
     ELSE m1

---------------------------------------------------------------------------
(* Render workflow: get_render_workflow_stage, update_contact_info,        *)
(* process_contact_info, get_missing_contact_fields                        *)

RequiredFields == <<"name", "email", "phone", "photo">>

\* contact_info.get(field) is truthy
Truthy(ci, f) == f \in DOMAIN ci /\ ci[f] # ""

get_render_workflow_stage(m) ==
  IF ~m.render_requested THEN "not_requested"
  ELSE IF m.render_status = "complete" THEN "complete"
  ELSE IF m.render_status = "in_progress" THEN "in_progress"
  ELSE IF \A f \in Range(RequiredFields) : Truthy(m.contact_info, f) THEN "complete"
  ELSE IF \E f \in Range(RequiredFields) : Truthy(m.contact_info, f) THEN "collecting_info"
  ELSE "info_needed"

update_contact_info(m, field, value) ==
  LET ci == Put(m.contact_info, field, value)
  IN [m EXCEPT !.contact_info = ci,
               !.render_status = IF \A f \in Range(RequiredFields) : Truthy(ci, f)
                                 THEN "complete" ELSE @]

\* email detection
contact_email(m, u) ==
  IF u.email # None /\ ~Truthy(m.contact_info, "email")
  THEN update_contact_info(m, "email", u.email[1]) ELSE m

\* phone detection
contact_phone(m, u) ==
  IF u.phone # None /\ ~Truthy(m.contact_info, "phone")
  THEN update_contact_info(m, "phone", u.phone[1]) ELSE m

\* name detection
contact_name(m, u) ==
  IF ~Truthy(m.contact_info, "name") /\ u.name # None
  THEN update_contact_info(m, "name", u.name[1]) ELSE m

\* photo detection
contact_photo(m, u) ==
  IF AnyIn(u, {"photo", "picture", "image"}) /\ AnyIn(u, {"sent", "attached", "here"})
  THEN update_contact_info(m, "photo", "provided") ELSE m

process_contact_info(m, u) ==
  contact_photo(contact_name(contact_phone(contact_email(m, u), u), u), u)

get_missing_contact_fields(m) ==
  SelectSeq(RequiredFields, LAMBDA f : ~Truthy(m.contact_info, f))

---------------------------------------------------------------------------
(* The reply under construction (bot_response): the parts it is made of,   *)
(* whether its lower-cased text holds "render" or "consult", and whether   *)
(* it ends with "?".  A part is [kind, arg]; where the flow engine picks a *)
(* phrase with random.choice, the attributes of the phrase picked are an   *)
(* input (rnd) ranging over what the phrase bank holds.                    *)

\* replies of the completion call
LPlain == [text |-> "Happy to help with that.", has |-> {}, endsq |-> FALSE]

LConsult == [text |-> "Would a consult settle that?", has |-> {"consult"}, endsq |-> TRUE]

LAsk == [text |-> "Good question. What are you picturing?", has |-> {}, endsq |-> TRUE]

LlmReplies == {LPlain, LConsult, LAsk}

Part(kind, arg) == [kind |-> kind, arg |-> arg]

\* bot_response = response.choices[0].message["content"]
ReplyOf(llm) ==
  [parts |-> <<Part("llm", <<llm.text>>)>>,
   render |-> "render" \in llm.has, consult |-> "consult" \in llm.has, endsq |-> llm.endsq]

\* bot_response += f" {phrase}"
AddPart(r, kind, arg, render, consult, endsq) ==
  [parts |-> Append(r.parts, Part(kind, arg)),
   render |-> r.render \/ render, consult |-> r.consult \/ consult, endsq |-> endsq]

PhilosophyTriggers ==
  {"cost", "price", "budget", "materials", "lighting", "tanning ledge", "bench", "seating"}

\* the random draws of one chat turn on record m with completion reply llm; a draw
\* the turn does not read (no philosophy trigger in the reply, no render request
\* on the record, the ending of the reply when no follow-up is drawn) is held at
\* FALSE
RandomDraws(m, llm) ==
  {rnd \in
  [philosophy : IF AnyIn(llm, PhilosophyTriggers) THEN BOOLEAN ELSE {FALSE},
                          \* a philosophy phrase is added where its trigger is met
   wf_render : IF m.render_requested THEN BOOLEAN ELSE {FALSE},
                          \* the timeline / soft-approach phrase picked holds "render"
   cta_render : BOOLEAN,  \* the render CTA phrase picked holds "render"
   cta_endsq : BOOLEAN,   \* the consult CTA phrase picked ends with "?"
   followup : BOOLEAN]    \* random.random() >= 0.4 in get_intelligent_followup
   : rnd.followup \/ (~rnd.cta_render /\ ~rnd.cta_endsq)}

QualitySignals ==
  {"experience", "qualified", "certified", "professional", "expertise", "quality",
   "trust", "credentials", "builder", "years", "reputation"}

should_add_credibility(u) == AnyIn(u, QualitySignals)

\* the phrases added by the three triggers are kept as one part
enhance_response_with_philosophy(r, llm, rnd) ==
  IF AnyIn(llm, PhilosophyTriggers) /\ rnd.philosophy
  THEN AddPart(r, "philosophy", <<>>, FALSE, FALSE, FALSE)
  ELSE r

\* get_contact_collection_message(missing_fields) appended to the reply
get_contact_collection_message(r, missing) ==
  IF Len(missing) = 4 THEN AddPart(r, "contact_collection_phrase", <<>>, TRUE, FALSE, FALSE)
  ELSE IF Len(missing) = 1
  THEN AddPart(r, "field_message", missing, missing[1] = "email", FALSE, missing[1] # "photo")
  ELSE AddPart(r, "still_need", missing, FALSE, FALSE, FALSE)

\* a variant that looks at the engagement level only
should_offer_partial_info_engaged(m) ==
  m.engagement_level >= 2

should_offer_partial_info(m) ==
  m.engagement_level >= 2 /\ Cardinality(DOMAIN m.contact_info) = 0

\* the branch render_stage == "collecting_info" once process_contact_info has run
\* on the record (m1) and the missing fields are known
collecting_info(m1, missing, r, rnd) ==
  IF Len(missing) > 0
  THEN IF Len(missing) <= 2 /\ should_offer_partial_info(m1)
       THEN [mem |-> m1,
             reply |-> AddPart(r, "partial_info_offer", <<>>, FALSE, FALSE, FALSE)]
       ELSE [mem |-> m1,
             reply |-> IF Len(missing) >= 3
                       THEN AddPart(get_contact_collection_message(r, missing),
                                    "soft_contact_approach", <<>>, rnd.wf_render, FALSE, FALSE)
                       ELSE get_contact_collection_message(r, missing)]
  ELSE [mem |-> [m1 EXCEPT !.render_status = "complete"],
        reply |-> AddPart(r, "render_complete", <<>>, TRUE, FALSE, FALSE)]

\* get_missing_contact_fields on the record process_contact_info left
collecting_info_missing(m1, r, rnd) ==
  collecting_info(m1, get_missing_contact_fields(m1), r, rnd)

\* a variant whose second branch is an else: contact details are parsed in every
\* stage but info_needed
render_stage_branch_else(stage, m, u, r, rnd) ==
  IF stage = "info_needed"
  THEN [mem |-> m,
        reply |-> AddPart(get_contact_collection_message(r, <<>>),
                          "render_timeline", <<>>, rnd.wf_render, FALSE, FALSE)]
  ELSE collecting_info_missing(process_contact_info(m, u), r, rnd)

\* the workflow branch for a render stage
render_stage_branch(stage, m, u, r, rnd) ==
  IF stage = "info_needed"
  THEN [mem |-> m,
        reply |-> AddPart(get_contact_collection_message(r, <<>>),
                          "render_timeline", <<>>, rnd.wf_render, FALSE, FALSE)]
  ELSE IF stage = "collecting_info"
  THEN collecting_info_missing(process_contact_info(m, u), r, rnd)
  ELSE [mem |-> m, reply |-> r]

\* returns the record and the reply
handle_render_workflow(m, u, r, rnd) ==
  render_stage_branch(get_render_workflow_stage(m), m, u, r, rnd)

---------------------------------------------------------------------------
(* Flow engine: the phrase banks and random.choice                         *)

\* the number of variants in the bank of each intent: consult_ctas,
\* render_fallback_ctas, contact_collection_phrases, re_engagement_phrases
PhraseBank == [consult |-> 8, render |-> 7, contact |-> 5, re_engagement |-> 7]

\* random.choice(bank): any variant of the bank, whatever was returned before
random_choice(intent) == 1..PhraseBank[intent]

\* the number of lines in the list get_opening_message draws from while a
\* render is in progress
RenderFollowups == 3

\* get_opening_message(memory): what the call can return, None where it
\* returns None without a draw
get_opening_message(m) ==
  IF m.render_status = "in_progress"
  THEN {Some(Part("render_followup", <<v>>)) : v \in 1..RenderFollowups}
  ELSE IF Len(m.interactions) > 2
  THEN {Some(Part("re_engagement", <<v>>)) : v \in random_choice("re_engagement")}
  ELSE {None}

---------------------------------------------------------------------------
(* Flow engine: CTA message, stall detection, restart, follow-up           *)

\* bot_response += f"\n\n{cta_message}"; chat reads the consult flag for the last
\* time before this part is added
get_cta_message(r, m, cta_type, rnd) ==
  IF cta_type = "consult"
  THEN LET addon == "focus" \in DOMAIN m.key_facts
                    /\ m.key_facts["focus"] \in {"entertaining", "relaxation", "family"}
       IN AddPart(r, "cta_consult", <<>>, FALSE, TRUE, rnd.cta_endsq /\ ~addon)
  ELSE IF cta_type = "render"
  THEN AddPart(r, "cta_render", <<>>, rnd.cta_render, FALSE, FALSE)
  ELSE AddPart(r, "cta_empty", <<>>, FALSE, FALSE, FALSE)

UtteranceOf(text) == CHOOSE u \in AllUtterances : u.text = text

detect_conversation_stall(m) ==
  IF Len(m.interactions) < 3 THEN FALSE
  ELSE LET recent == LastK(m.interactions, 3)
           short == {i \in 1..3 : UtteranceOf(recent[i].user).n <= 3}
       IN IF Cardinality(short) >= 2 THEN TRUE
          ELSE \E i \in 1..3 : UtteranceOf(recent[i].user).q = 0

\* bot_response = restart_message
get_conversation_restart(m) ==
  LET kf == m.key_facts
      addon == IF "budget_conscious" \in DOMAIN kf /\ kf["budget_conscious"] THEN <<"cost">>
               ELSE IF "space_concerns" \in DOMAIN kf /\ kf["space_concerns"] THEN <<"space">>
               ELSE IF DOMAIN kf = {} THEN <<"information">>
               ELSE <<>>
  IN [parts |-> <<Part("restart", addon)>>,
      render |-> FALSE, consult |-> FALSE, endsq |-> addon # <<"information">>]

\* get_intelligent_followup returns a question unless the draw says None
add_followup(r, rnd) ==
  IF rnd.followup /\ ~r.endsq /\ ~r.render
  THEN AddPart(r, "followup", <<>>, FALSE, FALSE, TRUE)
  ELSE r

---------------------------------------------------------------------------
(* The body of chat() between load_memory and save_memory                  *)

\* add_interaction on the record and the final reply: the record, the reply,
\* what the gate returned and whether a CTA was issued (appended and recorded)
chat_add_interaction(m, r, gate, issue, u, t) ==
  [mem |-> add_interaction(m, u, r.parts, t),
   reply |-> r.parts,
   gate |-> gate,
   issued |-> issue]

\* 5. stall restart and 6. follow-up
chat_stall_followup(m, r, gate, issue, u, rnd, t) ==
  chat_add_interaction(m,
                       add_followup(IF detect_conversation_stall(m)
                                    THEN get_conversation_restart(m) ELSE r, rnd),
                       gate, issue, u, t)

\* a variant that records the CTA it issues as accepted
chat_issue_cta_accepted(m, r, gate, issue, u, rnd, t) ==
  chat_stall_followup(IF issue THEN record_cta_attempt(m, gate[2], RYes, t) ELSE m,
                      IF issue THEN get_cta_message(r, m, gate[2], rnd) ELSE r,
                      gate, issue, u, rnd, t)

\* the CTA appended and recorded where should_cta holds and the reply holds
\* neither "render" nor "consult"
chat_issue_cta(m, r, gate, issue, u, rnd, t) ==
  chat_stall_followup(IF issue THEN record_cta_attempt(m, gate[2], RPending, t) ELSE m,
                      IF issue THEN get_cta_message(r, m, gate[2], rnd) ELSE r,
                      gate, issue, u, rnd, t)

\* 4. the gate on the record the render workflow left
chat_cta(m, r, gate, u, rnd, t) ==
  chat_issue_cta(m, r, gate, gate[1] /\ ~r.render /\ ~r.consult, u, rnd, t)

\* 3. the render workflow result wf = [mem, reply]
chat_after_workflow(wf, u, rnd, t) ==
  chat_cta(wf.mem, wf.reply, should_attempt_cta(wf.mem, t), u, rnd, t)

\* 3. render workflow where it is active
chat_render_workflow(m, u, r, rnd, t) ==
  chat_after_workflow(IF m.render_requested \/ "render" \in u.has \/ "visual" \in u.has
                      THEN handle_render_workflow(m, u, r, rnd)
                      ELSE [mem |-> m, reply |-> r],
                      u, rnd, t)

\* 1. credibility
chat_credibility(u, llm) ==
  IF should_add_credibility(u)
  THEN AddPart(ReplyOf(llm), "credibility", <<>>, FALSE, FALSE, FALSE)
  ELSE ReplyOf(llm)

\* the turn on record m: utterance u, completion reply llm, draws rnd, at time t
chat_body(m, u, llm, rnd, t) ==
  chat_render_workflow(m, u,
                       enhance_response_with_philosophy(chat_credibility(u, llm), llm, rnd),
                       rnd, t)

---------------------------------------------------------------------------
(* build_context_summary and _get_intelligent_suggestions                  *)

\* summary_parts: one part for each fact, the stage and the render stage
summary_parts(m) ==
  LET kf == m.key_facts
      stage == get_render_workflow_stage(m)
  IN (IF "focus" \in DOMAIN kf THEN <<Part("focus", <<kf["focus"]>>)>> ELSE <<>>)
     \o (IF "budget_conscious" \in DOMAIN kf THEN <<Part("budget_conscious", <<>>)>> ELSE <<>>)
     \o (IF "pool_type" \in DOMAIN kf THEN <<Part("pool_type", <<kf["pool_type"]>>)>> ELSE <<>>)
     \o (IF "preferred_size" \in DOMAIN kf
         THEN <<Part("preferred_size", <<kf["preferred_size"]>>)>> ELSE <<>>)
     \o (IF "features" \in DOMAIN kf /\ Len(kf["features"]) > 0
         THEN <<Part("features", kf["features"])>> ELSE <<>>)
     \o (IF m.buyer_stage # "browsing" THEN <<Part("stage", <<m.buyer_stage>>)>> ELSE <<>>)
     \o (IF stage \in {"in_progress", "collecting_info", "complete"}
         THEN <<Part("render", <<stage>>)>> ELSE <<>>)

\* the stage-based suggestions; in stage considering the gate is asked at time t
stage_suggestions(m, t) ==
  IF m.buyer_stage = "browsing" /\ m.engagement_level >= 2
  THEN <<Part("ask_vision", <<>>)>>
  ELSE IF m.buyer_stage = "interested"
  THEN (IF "preferred_size" \notin DOMAIN m.key_facts
        THEN <<Part("explore_size", <<>>)>> ELSE <<>>)
       \o (IF "focus" \notin DOMAIN m.key_facts
           THEN <<Part("understand_use", <<>>)>> ELSE <<>>)
  ELSE IF m.buyer_stage = "considering" /\ should_attempt_cta(m, t)[1]
  THEN <<Part("consider_cta", <<should_attempt_cta(m, t)[2]>>)>>
  ELSE <<>>

focus_suggestions(m) ==
  IF "focus" \in DOMAIN m.key_facts
     /\ m.key_facts["focus"] \in {"entertaining", "relaxation", "family"}
  THEN <<Part("focus_first", <<m.key_facts["focus"]>>),
         Part("focus_second", <<m.key_facts["focus"]>>)>>
  ELSE <<>>

\* ". ".join(suggestions[:3])
get_intelligent_suggestions(m, t) ==
  FirstK(stage_suggestions(m, t) \o focus_suggestions(m)
         \o (IF "budget_conscious" \in DOMAIN m.key_facts
             THEN <<Part("emphasize_value", <<>>)>> ELSE <<>>),
         3)

\* base_summary with " GUIDANCE: ..." after it where there are suggestions
with_guidance(context, suggestions) ==
  IF suggestions # <<>> THEN context \o <<Part("guidance", <<>>)>> \o suggestions
  ELSE context

\* the text build_context_summary(m) returns when called at time t, as its
\* parts; the empty sequence is the empty string
build_context_summary(m, t) ==
  IF DOMAIN m.key_facts = {} /\ m.interactions = <<>> THEN <<>>
  ELSE IF summary_parts(m) # <<>>
  THEN with_guidance(summary_parts(m), get_intelligent_suggestions(m, t))
  ELSE <<>>

---------------------------------------------------------------------------
(* Memory store: load_memory, save_memory                                  *)

UserIds == {"u1", "u2"}

expiry_days == 90

ExpiryMinutes == expiry_days * 24 * 60

\* a variant that returns the row whatever its age
load_memory_no_expiry(st, id, t) ==
  IF st[id] # <<>> THEN st[id][1].memory ELSE default_memory

\* a variant whose upsert leaves last_updated of an existing row as it is
save_memory_keep_stamp(st, id, m, t) ==
  [st EXCEPT ![id] = <<[memory |-> m,
                        created_at |-> IF st[id] # <<>> THEN st[id][1].created_at ELSE t,
                        last_updated |-> IF st[id] # <<>> THEN st[id][1].last_updated
                                         ELSE t]>>]

\* the record load_memory returns at time t
load_memory(st, id, t) ==
  IF st[id] # <<>>
  THEN IF t - st[id][1].last_updated > ExpiryMinutes THEN default_memory
       ELSE st[id][1].memory
  ELSE default_memory

\* the table after the upsert of record m at time t
save_memory(st, id, m, t) ==
  [st EXCEPT ![id] = <<[memory |-> m,
                        created_at |-> IF st[id] # <<>> THEN st[id][1].created_at ELSE t,
                        last_updated |-> t]>>]

---------------------------------------------------------------------------
(* load_memory on a fetched row whose columns may be NULL or missing: a    *)
(* raw row maps a column name to None (NULL) or Some(value)                *)

\* the columns of the row save_memory writes for record m
RowOf(m, created, updated) ==
  [k \in (DOMAIN m) \cup {"created_at", "last_updated"} |->
     IF k = "created_at" THEN Some(created)
     ELSE IF k = "last_updated" THEN Some(updated)
     ELSE Some(m[k])]

\* the loop "Ensure defaults for new fields"
backfill(row) ==
  [k \in DOMAIN default_memory |->
     IF k \in DOMAIN row /\ row[k] # None THEN row[k][1] ELSE default_memory[k]]

\* what load_memory returns at time t once fetchone() returned row: the
\* expiry test raises on a missing or NULL last_updated and the datetime
\* conversion raises on a missing created_at or last_cta_attempt, and the
\* except branch returns default_memory
load_row(row, t) ==
  IF "last_updated" \notin DOMAIN row \/ row["last_updated"] = None THEN default_memory
  ELSE IF t - row["last_updated"][1] > ExpiryMinutes THEN default_memory
  ELSE IF "created_at" \notin DOMAIN row \/ "last_cta_attempt" \notin DOMAIN row
  THEN default_memory
  ELSE backfill(row)

---------------------------------------------------------------------------
(* Store failures: what chat() does when the read, the completion call or  *)
(* the upsert raises                                                       *)

Faults == {"none", "read", "completion", "write"}

\* load_memory with its except branch: a failed read returns default_memory
load_memory_db(st, id, t, fault) ==
  IF fault = "read" THEN default_memory ELSE load_memory(st, id, t)

\* save_memory with its except branch: a failed upsert is logged and dropped
save_memory_db(st, id, m, t, fault) ==
  IF fault = "write" THEN st ELSE save_memory(st, id, m, t)

\* what the caller gets: the status, the error text, and the fields of the
\* success reply; loaded is the record load_memory handed to the turn, None
\* where the turn did not get that far
Reply400 ==
  [status |-> 400, error |-> "Empty message", loaded |-> None, reply |-> <<>>,
   buyer_stage |-> "None", engagement_level |-> 0, render_status |-> "None"]

Reply500(m0) ==
  [status |-> 500,
   error |-> "Sorry, I'm having trouble connecting right now. Please try again.",
   loaded |-> Some(m0), reply |-> <<>>,
   buyer_stage |-> "None", engagement_level |-> 0, render_status |-> "None"]

Reply200(m0, res) ==
  [status |-> 200, error |-> "", loaded |-> Some(m0), reply |-> res.reply,
   buyer_stage |-> res.mem.buyer_stage, engagement_level |-> res.mem.engagement_level,
   render_status |-> get_render_workflow_stage(res.mem)]

\* a variant that tests the message without strip()
message_empty_no_strip(u) == u.text = ""

\* not user_message.strip()
message_empty(u) == u.n = 0

\* memory_manager._generate_user_id(): str(uuid.uuid4())[:8], a draw that
\* looks nothing up: any id, one that has a row or sits in a cookie included
generate_user_id == UserIds

\* get_or_create_user_id(): the user_id of the session, or a new one
get_or_create_user_id(sid, fresh) == IF sid = <<>> THEN fresh ELSE {sid[1]}

\* a variant of chat that calls get_or_create_user_id() before it tests the
\* message
chat_user_id_before_test(u, sid, fresh) ==
  {<<id>> : id \in get_or_create_user_id(sid, fresh)}

\* chat up to line 485: the user id the request goes on with, none for a
\* message that is rejected before get_or_create_user_id() is called
chat_user_id(u, sid, fresh) ==
  IF message_empty(u) THEN {<<>>}
  ELSE {<<id>> : id \in get_or_create_user_id(sid, fresh)}

\* a variant that records the turn with an empty bot text when the completion
\* call fails
completion_error_records(st, id, m0, u, t) ==
  [store |-> save_memory(st, id, add_interaction(m0, u, <<>>, t), t), resp |-> Reply500(m0)]

\* except openai.error.OpenAIError: nothing is written, the caller gets the
\* try-again text with status 500
completion_error(st, id, m0, u, t) ==
  [store |-> st, resp |-> Reply500(m0)]

---------------------------------------------------------------------------
(* cleanup_expired_memories                                                *)

\* a variant whose DELETE has no WHERE clause
cleanup_delete_all(st, cutoff) == [id \in DOMAIN st |-> <<>>]

\* a variant that compares created_at with the cutoff
cleanup_delete_by_created(st, cutoff) ==
  [id \in DOMAIN st |->
     IF st[id] # <<>> /\ st[id][1].created_at < cutoff THEN <<>> ELSE st[id]]

\* DELETE FROM user_memories WHERE last_updated < cutoff
cleanup_delete(st, cutoff) ==
  [id \in DOMAIN st |->
     IF st[id] # <<>> /\ st[id][1].last_updated < cutoff THEN <<>> ELSE st[id]]

\* cur.rowcount of the DELETE
cleanup_rowcount(st, cutoff) ==
  Cardinality({id \in DOMAIN st : cleanup_delete(st, cutoff)[id] # st[id]})

\* DELETE FROM user_memories WHERE user_id = id
reset_delete(st, id) == [st EXCEPT ![id] = <<>>]

---------------------------------------------------------------------------
(* State *)

Procs == {"p1", "p2"}

\* the browsers that send requests, each with its own session cookie
Clients == {"c1", "c2"}

\* the user id of the turns that are given no client
Uid == "u1"

IdleLocal ==
  [op |-> "none", memory |-> default_memory, reply |-> <<>>,
   gate |-> <<FALSE, "None">>, issued |-> FALSE, at |-> 0]

NoOp ==
  [op |-> "init", gate |-> <<FALSE, "None">>, issued |-> FALSE, reply |-> <<>>,
   affirmative |-> FALSE, type |-> "None"]

Init ==
  /\ now = 0
  /\ mem = default_memory
  /\ store = [id \in UserIds |-> <<>>]
  /\ local = [p \in Procs |-> IdleLocal]
  /\ pc = [p \in Procs |-> "idle"]
  /\ last = NoOp
  /\ hist = [steps |-> 0, gate_true_at |-> <<>>, turns |-> <<>>, issued |-> <<>>,
             record_at |-> None, simulated |-> 0]
  /\ session = [c \in Clients |-> None]

\* the text recorded as the bot's side by a direct add_interaction call
BotText == ReplyOf(LPlain).parts

---------------------------------------------------------------------------
(* Operations on one working record *)

\* memory_manager.add_interaction(mem, u, bot) called d minutes after the last call
AddInteractionStep(d, u, bot) ==
  /\ hist.steps < MaxSteps
  /\ now' = now + d
  /\ mem' = add_interaction(mem, u, bot, now + d)
  /\ last' = [NoOp EXCEPT !.op = "add_interaction"]
  /\ hist' = [hist EXCEPT !.steps = @ + 1]
  /\ UNCHANGED <<store, local, pc, session>>

\* memory_manager.add_interaction(mem, u, bot), as often as it takes to go past
\* the cap on interactions; hist.turns keeps every interaction appended
AddInteractionLong(u) ==
  /\ hist.steps <= MaxInteractions
  /\ now' = now + 1
  /\ mem' = add_interaction(mem, u, BotText, now + 1)
  /\ last' = [NoOp EXCEPT !.op = "add_interaction"]
  /\ hist' = [hist EXCEPT !.steps = @ + 1,
                          !.turns = Append(@, [timestamp |-> now + 1, user |-> u.text,
                                               bot |-> BotText])]
  /\ UNCHANGED <<store, local, pc, session>>

\* memory_manager.record_cta_attempt(mem, cta_type, response)
RecordCtaStep(d, cta_type, response) ==
  /\ hist.steps < MaxSteps
  /\ now' = now + d
  /\ mem' = record_cta_attempt(mem, cta_type, response, now + d)
  /\ last' = [NoOp EXCEPT !.op = "record_cta_attempt", !.type = cta_type,
                          !.affirmative = Affirmative(response)]
  /\ hist' = [hist EXCEPT !.steps = @ + 1, !.record_at = Some(now + d)]
  /\ UNCHANGED <<store, local, pc, session>>

\* memory_manager.should_attempt_cta(mem), read-only
GateStep ==
  /\ last.op # "should_attempt_cta"
  /\ last' = [NoOp EXCEPT !.op = "should_attempt_cta", !.gate = should_attempt_cta(mem, now)]
  /\ UNCHANGED <<now, mem, store, local, pc, hist, session>>

\* memory_manager.build_context_summary(mem), read-only, d minutes after the
\* last call
SummaryStep(d) ==
  /\ hist.steps < MaxSteps
  /\ now' = now + d
  /\ last' = [NoOp EXCEPT !.op = "build_context_summary",
                          !.reply = build_context_summary(mem, now + d)]
  /\ hist' = [hist EXCEPT !.steps = @ + 1]
  /\ UNCHANGED <<mem, store, local, pc, session>>

\* flow_engine.get_opening_message(mem): a line for a render in progress, a
\* re-engagement line for a record of more than two interactions, or None
SelectOpening ==
  /\ hist.steps < MaxSteps
  /\ \E out \in get_opening_message(mem) :
       last' = [NoOp EXCEPT !.op = IF out = None THEN "no_opening" ELSE "select",
                            !.type = IF out = None THEN "None" ELSE out[1].kind,
                            !.reply = out]
  /\ hist' = [hist EXCEPT !.steps = @ + 1]
  /\ UNCHANGED <<now, mem, store, local, pc, session>>

\* flow_engine.get_cta_message(mem, cta_type): one variant of the bank of the
\* CTA type, and the empty text for any other type; the words the function adds
\* from key_facts are the same for every call on the same record
SelectCta(cta_type) ==
  /\ hist.steps < MaxSteps
  /\ IF cta_type \in {"consult", "render"}
     THEN \E variant \in random_choice(cta_type) :
            last' = [NoOp EXCEPT !.op = "select", !.type = cta_type,
                                 !.reply = <<Part(cta_type, <<variant>>)>>]
     ELSE last' = [NoOp EXCEPT !.op = "empty_cta", !.type = cta_type]
  /\ hist' = [hist EXCEPT !.steps = @ + 1]
  /\ UNCHANGED <<now, mem, store, local, pc, session>>

\* flow_engine.get_contact_collection_message(missing): one variant of the bank
\* when all four fields are missing, and the one text written for the missing
\* fields otherwise
SelectContact(missing) ==
  /\ hist.steps < MaxSteps
  /\ IF Len(missing) = 4
     THEN \E variant \in random_choice("contact") :
            last' = [NoOp EXCEPT !.op = "select", !.type = "contact",
                                 !.reply = <<Part("contact", <<variant>>)>>]
     ELSE last' = [NoOp EXCEPT !.op = "field_request", !.type = "contact",
                               !.reply = <<Part("field_request", missing)>>]
  /\ hist' = [hist EXCEPT !.steps = @ + 1]
  /\ UNCHANGED <<now, mem, store, local, pc, session>>

\* the out-of-band fulfillment action: render_status of the stored record of a
\* requested render is set from outside the chat flow
ExternalStatus(status) ==
  /\ hist.steps < MaxTurns
  /\ store[Uid] # <<>>
  /\ store[Uid][1].memory.render_requested
  /\ store[Uid][1].memory.render_status # status
  /\ now' = now + 1
  /\ store' = [store EXCEPT ![Uid] = <<[@[1] EXCEPT !.memory.render_status = status]>>]
  /\ last' = [NoOp EXCEPT !.op = "external"]
  /\ hist' = [hist EXCEPT !.steps = @ + 1]
  /\ UNCHANGED <<mem, local, pc, session>>

---------------------------------------------------------------------------
(* Loading a row with NULL or missing columns *)

\* a record in which every field differs from its default
FullRecord ==
  update_contact_info(
    record_cta_attempt(add_interaction(default_memory, UPrice, BotText, 1), "render", RYes, 2),
    "email", "dana@example.com")

\* the row of FullRecord with the columns of nulls set to NULL and the columns
\* of missing left out
RawRow(nulls, missing) ==
  [k \in (DOMAIN RowOf(FullRecord, 1, 2)) \ missing |->
     IF k \in nulls THEN None ELSE RowOf(FullRecord, 1, 2)[k]]

\* the table holds one row of the user, written at time 2, with at most
\* MaxNulls columns NULL or missing
InitRows ==
  /\ now = 2
  /\ mem = default_memory
  /\ \E nulls, missing \in SUBSET DOMAIN RowOf(FullRecord, 1, 2) :
        /\ nulls \cap missing = {}
        /\ Cardinality(nulls \cup missing) <= MaxNulls
        /\ store = [id \in UserIds |-> IF id = Uid THEN <<RawRow(nulls, missing)>> ELSE <<>>]
  /\ local = [p \in Procs |-> IdleLocal]
  /\ pc = [p \in Procs |-> "idle"]
  /\ last = NoOp
  /\ hist = [steps |-> 0, gate_true_at |-> <<>>, turns |-> <<>>, issued |-> <<>>,
             record_at |-> None, simulated |-> 0]
  /\ session = [c \in Clients |-> None]

\* mem = load_memory(user_id), d minutes after the last call
LoadRowStep(d) ==
  /\ hist.steps < MaxSteps
  /\ now' = now + d
  /\ mem' = load_row(store[Uid][1], now + d)
  /\ last' = [NoOp EXCEPT !.op = "load_memory"]
  /\ hist' = [hist EXCEPT !.steps = @ + 1]
  /\ UNCHANGED <<store, local, pc, session>>

---------------------------------------------------------------------------
(* The contact operations on one working record *)

\* memory_manager.update_contact_info(mem, field, value)
UpdateContactStep(field, value) ==
  /\ hist.steps < MaxSteps
  /\ mem' = update_contact_info(mem, field, value)
  /\ last' = [NoOp EXCEPT !.op = "update_contact_info", !.type = field]
  /\ hist' = [hist EXCEPT !.steps = @ + 1]
  /\ UNCHANGED <<now, store, local, pc, session>>

\* process_contact_info(u, mem)
ProcessContactStep(u) ==
  /\ hist.steps < MaxSteps
  /\ mem' = process_contact_info(mem, u)
  /\ last' = [NoOp EXCEPT !.op = "process_contact_info"]
  /\ hist' = [hist EXCEPT !.steps = @ + 1]
  /\ UNCHANGED <<now, store, local, pc, session>>

\* handle_render_workflow(mem, u, bot_response)
HandleRenderStep(u, llm) ==
  /\ hist.steps < MaxSteps
  /\ \E rnd \in RandomDraws(mem, llm) :
     \E wf \in {handle_render_workflow(mem, u, ReplyOf(llm), rnd)} :
        /\ mem' = wf.mem
        /\ last' = [NoOp EXCEPT !.op = "handle_render_workflow", !.reply = wf.reply.parts]
  /\ hist' = [hist EXCEPT !.steps = @ + 1]
  /\ UNCHANGED <<now, store, local, pc, session>>

---------------------------------------------------------------------------
(* Requests in flight at the same time: chat() and simulate_response() as  *)
(* load, compute, upsert                                                   *)

\* memory = memory_manager.load_memory(user_id) of chat
ChatLoad(p, d) ==
  /\ pc[p] = "idle"
  /\ hist.steps < MaxTurns
  /\ now' = now + d
  /\ local' = [local EXCEPT ![p] = [IdleLocal EXCEPT !.op = "chat",
                                      !.memory = load_memory(store, Uid, now + d)]]
  /\ pc' = [pc EXCEPT ![p] = "loaded"]
  /\ hist' = [hist EXCEPT !.steps = @ + 1]
  /\ UNCHANGED <<mem, store, last, session>>

\* the completion call, which returns d minutes after the last step, and the
\* processing of its reply; at keeps the time at which the gate was asked
ChatCompute(p, d, u, llm) ==
  /\ pc[p] = "loaded"
  /\ local[p].op = "chat"
  /\ now' = now + d
  /\ \E rnd \in RandomDraws(local[p].memory, llm) :
     \E res \in {chat_body(local[p].memory, u, llm, rnd, now + d)} :
        local' = [local EXCEPT ![p] = [op |-> "chat", memory |-> res.mem, reply |-> res.reply,
                                       gate |-> res.gate, issued |-> res.issued,
                                       at |-> now + d]]
  /\ pc' = [pc EXCEPT ![p] = "computed"]
  /\ UNCHANGED <<mem, store, last, hist, session>>

\* memory_manager.save_memory(memory) of chat, whose connection is obtained d
\* minutes after the last step, and the reply to the caller
ChatSave(p, d) ==
  /\ pc[p] = "computed"
  /\ local[p].op = "chat"
  /\ now' = now + d
  /\ store' = save_memory(store, Uid, local[p].memory, now + d)
  /\ last' = [NoOp EXCEPT !.op = "chat", !.gate = local[p].gate, !.issued = local[p].issued,
                          !.reply = local[p].reply, !.type = local[p].gate[2]]
  /\ hist' = [hist EXCEPT
                !.gate_true_at = IF local[p].gate[1] THEN Append(@, local[p].at) ELSE @,
                !.turns = Append(@, local[p].memory.interactions[
                                      Len(local[p].memory.interactions)]),
                !.issued = IF local[p].issued
                           THEN Append(@, local[p].memory.cta_attempts[
                                            Len(local[p].memory.cta_attempts)])
                           ELSE @]
  /\ local' = [local EXCEPT ![p] = IdleLocal]
  /\ pc' = [pc EXCEPT ![p] = "idle"]
  /\ UNCHANGED <<mem, session>>

\* load_memory and record_cta_attempt of simulate_response; hist.record_at keeps
\* the time of the first accepted render CTA
SimulateLoad(p, d, cta_type, response) ==
  /\ pc[p] = "idle"
  /\ hist.steps < MaxTurns
  /\ now' = now + d
  /\ local' = [local EXCEPT ![p] =
                 [IdleLocal EXCEPT !.op = "simulate",
                    !.memory = record_cta_attempt(load_memory(store, Uid, now + d),
                                                  cta_type, response, now + d)]]
  /\ pc' = [pc EXCEPT ![p] = "computed"]
  /\ hist' = [hist EXCEPT !.steps = @ + 1, !.simulated = @ + 1,
                          !.record_at = IF @ = None /\ cta_type = "render"
                                           /\ Affirmative(response)
                                        THEN Some(now + d) ELSE @]
  /\ UNCHANGED <<mem, store, last, session>>

\* save_memory of simulate_response, whose connection is obtained d minutes
\* after the last step
SimulateSave(p, d) ==
  /\ pc[p] = "computed"
  /\ local[p].op = "simulate"
  /\ now' = now + d
  /\ store' = save_memory(store, Uid, local[p].memory, now + d)
  /\ last' = [NoOp EXCEPT !.op = "simulate"]
  /\ local' = [local EXCEPT ![p] = IdleLocal]
  /\ pc' = [pc EXCEPT ![p] = "idle"]
  /\ UNCHANGED <<mem, hist, session>>

\* cutoff_date = datetime.now() - timedelta(days=self.expiry_days) of a cleanup
\* run started d minutes after the last step, while other requests may be in
\* flight
CleanupCutoff(p, d) ==
  /\ pc[p] = "idle"
  /\ hist.steps < MaxTurns
  /\ now' = now + d
  /\ local' = [local EXCEPT ![p] = [op |-> "cleanup", cutoff |-> now + d - ExpiryMinutes]]
  /\ pc' = [pc EXCEPT ![p] = "cutoff"]
  /\ hist' = [hist EXCEPT !.steps = @ + 1]
  /\ UNCHANGED <<mem, store, last, session>>

\* the DELETE of that run, its commit and the count returned; a run whose
\* connection or DELETE raises deletes nothing and returns 0. rerun holds the
\* count of the run that answered just before this one when that run reached
\* the table with the same cutoff; after_expired holds the user of the request
\* answered just before this one when that request was a chat turn whose
\* load_memory had met an expired row
CleanupDelete(p, fault) ==
  /\ pc[p] = "cutoff"
  /\ local[p].op = "cleanup"
  /\ store' = IF fault THEN store ELSE cleanup_delete(store, local[p].cutoff)
  /\ last' = [op |-> "cleanup", fault |-> fault,
              cleaned |-> IF fault THEN 0 ELSE cleanup_rowcount(store, local[p].cutoff),
              cutoff |-> local[p].cutoff,
              rerun |-> IF /\ ~fault
                           /\ last.op = "cleanup"
                           /\ ~last.fault
                           /\ last.cutoff = local[p].cutoff
                        THEN Some(last.cleaned) ELSE None,
              after_expired |-> IF /\ last.op = "chat"
                                   /\ "expired" \in DOMAIN last
                                   /\ last.resp.status = 200
                                   /\ last.expired
                                THEN Some(last.id) ELSE None]
  /\ local' = [local EXCEPT ![p] = IdleLocal]
  /\ pc' = [pc EXCEPT ![p] = "idle"]
  /\ UNCHANGED <<now, mem, hist, session>>

---------------------------------------------------------------------------
(* Requests against a store that may fail: chat() of the session of any    *)
(* user with at most one failing call, and reset_user_memory()             *)

\* chat() up to get_or_create_user_id, for a request client c sends with the
\* cookie it holds: an empty message is answered with status 400 before a user
\* id is read; otherwise the request holds the user id of its session, or a
\* new one. created keeps whether the request wrote user_id to its session
ChatRequestArrive(p, c, u, fault) ==
  /\ pc[p] = "idle"
  /\ hist.steps < MaxTurns
  /\ hist' = [hist EXCEPT !.steps = @ + 1]
  /\ \E uid \in chat_user_id(u, session[c], generate_user_id) :
       IF message_empty(u)
       THEN /\ last' = [op |-> "chat", client |-> c, fault |-> fault, user |-> u.text,
                        resp |-> Reply400]
            /\ session' = IF uid = None \/ uid = session[c] THEN session
                          ELSE [session EXCEPT ![c] = uid]
            /\ UNCHANGED <<local, pc>>
       ELSE /\ local' = [local EXCEPT ![p] =
                           [op |-> "chat_request", client |-> c, id |-> uid[1],
                            created |-> session[c] = None,
                            user |-> u.text, fault |-> fault]]
            /\ pc' = [pc EXCEPT ![p] = "arrived"]
            /\ UNCHANGED <<last, session>>
  /\ UNCHANGED <<now, mem, store>>

\* memory = memory_manager.load_memory(user_id) of the request, whose
\* connection is obtained d minutes after the last step; expired keeps whether
\* load_memory found a row and took the branch of an expired row
ChatRequestLoad(p, d) ==
  /\ pc[p] = "arrived"
  /\ local[p].op = "chat_request"
  /\ now' = now + d
  /\ local' = [local EXCEPT ![p] =
                 [op |-> "chat_request", client |-> local[p].client, id |-> local[p].id,
                  created |-> local[p].created,
                  user |-> local[p].user, fault |-> local[p].fault,
                  loaded |-> load_memory_db(store, local[p].id, now + d, local[p].fault),
                  expired |-> /\ local[p].fault # "read"
                              /\ store[local[p].id] # <<>>
                              /\ now + d - store[local[p].id][1].last_updated
                                   > ExpiryMinutes,
                  res |-> <<>>]]
  /\ pc' = [pc EXCEPT ![p] = "loaded"]
  /\ UNCHANGED <<mem, store, last, hist, session>>

\* what is left of a request once its response is built: the cookie the
\* response carries to the client, when the request wrote to its session
Answered(p, cookie) ==
  /\ local' = [local EXCEPT ![p] =
                 IF cookie = None THEN IdleLocal
                 ELSE [op |-> "response", client |-> local[p].client,
                       cookie |-> cookie[1]]]
  /\ pc' = [pc EXCEPT ![p] = IF cookie = None THEN "idle" ELSE "reply"]

\* the completion call of the request, which returns or raises d minutes after
\* the last step, and the processing of its reply; a completion call that
\* raises ends the request
ChatRequestCompute(p, d, llm) ==
  /\ pc[p] = "loaded"
  /\ local[p].op = "chat_request"
  /\ now' = now + d
  /\ IF local[p].fault = "completion"
     THEN \E out \in {completion_error(store, local[p].id, local[p].loaded,
                                        UtteranceOf(local[p].user), now + d)} :
            /\ store' = out.store
            /\ last' = [op |-> "chat", client |-> local[p].client, id |-> local[p].id,
                        fault |-> local[p].fault,
                        user |-> local[p].user, resp |-> out.resp, expired |-> FALSE]
            /\ Answered(p, IF local[p].created THEN Some(Some(local[p].id)) ELSE None)
     ELSE /\ \E rnd \in RandomDraws(local[p].loaded, llm) :
               local' = [local EXCEPT ![p].res =
                           <<chat_body(local[p].loaded, UtteranceOf(local[p].user), llm,
                                       rnd, now + d)>>]
          /\ pc' = [pc EXCEPT ![p] = "computed"]
          /\ UNCHANGED <<store, last>>
  /\ UNCHANGED <<mem, hist, session>>

\* save_memory(memory) of the request, whose connection is obtained d minutes
\* after the last step, and the success reply
ChatRequestSave(p, d) ==
  /\ pc[p] = "computed"
  /\ local[p].op = "chat_request"
  /\ now' = now + d
  /\ store' = save_memory_db(store, local[p].id, local[p].res[1].mem, now + d, local[p].fault)
  /\ last' = [op |-> "chat", client |-> local[p].client, id |-> local[p].id,
              fault |-> local[p].fault,
              user |-> local[p].user,
              resp |-> Reply200(local[p].loaded, local[p].res[1]),
              expired |-> local[p].expired]
  /\ Answered(p, IF local[p].created THEN Some(Some(local[p].id)) ELSE None)
  /\ UNCHANGED <<mem, hist, session>>

\* reset_user_memory(id) up to the connection, for a request client c sends
\* with the cookie it holds: clear keeps whether the session holds that id
ResetArrive(p, c, id) ==
  /\ pc[p] = "idle"
  /\ hist.steps < MaxTurns
  /\ local' = [local EXCEPT ![p] = [op |-> "reset", client |-> c, id |-> id,
                                    clear |-> session[c] = Some(id)]]
  /\ pc' = [pc EXCEPT ![p] = "reset"]
  /\ hist' = [hist EXCEPT !.steps = @ + 1]
  /\ UNCHANGED <<now, mem, store, last, session>>

\* the DELETE of the reset and its commit: the row of the user is deleted
\* whatever requests are in flight, and the session is cleared when it held
\* that id; a request whose connection or DELETE raises is answered with
\* status 500, deletes nothing and leaves the session as it was
ResetDelete(p, fault) ==
  /\ pc[p] = "reset"
  /\ local[p].op = "reset"
  /\ store' = IF fault THEN store ELSE reset_delete(store, local[p].id)
  /\ last' = [op |-> "reset", client |-> local[p].client, id |-> local[p].id,
              fault |-> fault, status |-> IF fault THEN 500 ELSE 200]
  /\ Answered(p, IF ~fault /\ local[p].clear THEN Some(None) ELSE None)
  /\ UNCHANGED <<now, mem, hist, session>>

\* the response of a request that wrote to its session reaches the client:
\* the cookie of the client is what the response carries
ResponseArrives(p) ==
  /\ pc[p] = "reply"
  /\ local[p].op = "response"
  /\ session' = [session EXCEPT ![local[p].client] = local[p].cookie]
  /\ local' = [local EXCEPT ![p] = IdleLocal]
  /\ pc' = [pc EXCEPT ![p] = "idle"]
  /\ UNCHANGED <<now, mem, store, last, hist>>

---------------------------------------------------------------------------
(* Specifications *)

CtaTypes == {"consult", "render"}

\* Spec: any sequence of add_interaction and record_cta_attempt calls on a record
Next ==
  \/ \E u \in Utterances : AddInteractionStep(1, u, BotText)
  \/ \E k \in CtaTypes, r \in Responses : RecordCtaStep(1, k, r)
  \/ GateStep

Spec == Init /\ [][Next]_vars

\* SpecSummary: the summary asked for between calls on a record that two
\* add_interaction calls have built
InitSummary ==
  /\ now = 2
  /\ \E u1, u2 \in Utterances :
        mem = add_interaction(add_interaction(default_memory, u1, BotText, 1),
                              u2, BotText, 2)
  /\ store = [id \in UserIds |-> <<>>]
  /\ local = [p \in Procs |-> IdleLocal]
  /\ pc = [p \in Procs |-> "idle"]
  /\ last = NoOp
  /\ hist = [steps |-> 0, gate_true_at |-> <<>>, turns |-> <<>>, issued |-> <<>>,
             record_at |-> None, simulated |-> 0]
  /\ session = [c \in Clients |-> None]

NextSummary ==
  \/ \E u \in {UDeep, UOk} : AddInteractionStep(1, u, BotText)
  \/ \E k \in CtaTypes : RecordCtaStep(1, k, RPending)
  \/ \E d \in {0, 5} : SummaryStep(d)

SpecSummary == InitSummary /\ [][NextSummary]_vars

\* SpecPhrase: calls of the three phrase functions of the flow engine, one
\* after the other, on a new record, on a record of three interactions, or on
\* that record with a render accepted and its render_status set to in_progress
InitPhrase ==
  /\ now = 3
  /\ \E returning \in {add_interaction(add_interaction(add_interaction(
                          default_memory, UPrice, BotText, 1), UOk, BotText, 2),
                          UOk, BotText, 3)} :
       mem \in {default_memory, returning,
                [record_cta_attempt(returning, "render", RYes, 3)
                   EXCEPT !.render_status = "in_progress"]}
  /\ store = [id \in UserIds |-> <<>>]
  /\ local = [p \in Procs |-> IdleLocal]
  /\ pc = [p \in Procs |-> "idle"]
  /\ last = NoOp
  /\ hist = [steps |-> 0, gate_true_at |-> <<>>, turns |-> <<>>, issued |-> <<>>,
             record_at |-> None, simulated |-> 0]
  /\ session = [c \in Clients |-> None]

NextPhrase ==
  \/ SelectOpening
  \/ \E cta_type \in CtaTypes \cup {"None"} : SelectCta(cta_type)
  \/ \E missing \in {RequiredFields, <<"name">>, <<>>} : SelectContact(missing)

SpecPhrase == InitPhrase /\ [][NextPhrase]_vars

\* SpecGate: the gate queried between calls that are 1, 5 or 55 minutes apart
NextGate ==
  \/ \E d \in {1, 5, 55}, u \in {UPrice, UVisit, UMore} : AddInteractionStep(d, u, BotText)
  \/ \E d \in {1, 5, 55}, k \in CtaTypes : RecordCtaStep(d, k, RPending)
  \/ GateStep

SpecGate == Init /\ [][NextGate]_vars

\* SpecChat: chat turns of one user, one after the other: no request starts
\* before the one before it has answered; the completion call returns at once
\* or a minute later
NextChat ==
  \/ \E d \in {4, 55} : ChatLoad("p1", d)
  \/ \E dc \in {0, 1}, u \in {UPrice, UOk}, llm \in {LAsk, LConsult} :
       ChatCompute("p1", dc, u, llm)
  \/ ChatSave("p1", 0)

SpecChat == Init /\ [][NextChat]_vars

\* SpecOverlap: chat turns of one user in flight at the same time, and nothing
\* else
NextOverlap ==
  \E p \in Procs :
    \/ hist.steps < MaxRequests /\ ChatLoad(p, 0)
    \/ \E dc \in {0, 5}, u \in {UPrice, UOk} : ChatCompute(p, dc, u, LAsk)
    \/ ChatSave(p, 1)

SpecOverlap == Init /\ [][NextOverlap]_vars

\* SpecConc: two requests of one user in flight at the same time
NextConc ==
  \E p \in Procs :
    \/ hist.steps < MaxRequests /\ ChatLoad(p, 0)
    \/ \E dc \in {0, 5}, u \in {UPrice, UOk} : ChatCompute(p, dc, u, LPlain)
    \/ \E ds \in {0, 1} : ChatSave(p, ds)
    \/ hist.steps < MaxRequests /\ \E k \in CtaTypes : SimulateLoad(p, 0, k, RYes)
    \/ \E ds \in {0, 1} : SimulateSave(p, ds)

SpecConc == Init /\ [][NextConc]_vars

\* values a contact field is set to by a direct update_contact_info call
UpdateValues == {"", "other"}

\* SpecWorkflow: the render request and the contact operations on a record
NextWorkflow ==
  \/ \E r \in {RYes, RNotYet} : RecordCtaStep(1, "render", r)
  \/ \E f \in Range(RequiredFields), v \in UpdateValues : UpdateContactStep(f, v)
  \/ \E u \in ContactUtterances : ProcessContactStep(u)
  \/ \E u \in ContactUtterances : HandleRenderStep(u, LAsk)

SpecWorkflow == Init /\ [][NextWorkflow]_vars

\* SpecOffer: the render workflow on a record whose engagement level rises
NextOffer ==
  \/ AddInteractionStep(1, UDeep, BotText)
  \/ RecordCtaStep(1, "render", RYes)
  \/ \E f \in Range(RequiredFields), v \in UpdateValues : UpdateContactStep(f, v)
  \/ \E u \in {UNameEmail, UPhonePhoto} : ProcessContactStep(u)
  \/ \E u \in {UNameEmail, UPhonePhoto, UOk} : HandleRenderStep(u, LAsk)

SpecOffer == Init /\ [][NextOffer]_vars

\* SpecRender: chat turns and simulated CTA responses of one user, in flight at
\* the same time or one after the other, and the fulfillment action on the
\* stored record
NextRender ==
  \/ \E p \in Procs :
       \/ hist.steps < MaxRequests /\ ChatLoad(p, 0)
       \/ \E dc \in {0, 1}, u \in {UNameEmail, UPhonePhoto, UOk} : ChatCompute(p, dc, u, LAsk)
       \/ \E ds \in {0, 1} : ChatSave(p, ds)
       \/ hist.steps < MaxRequests /\ \E r \in {RYes, RNotYet} : SimulateLoad(p, 0, "render", r)
       \/ \E ds \in {0, 1} : SimulateSave(p, ds)
  \/ \E status \in {"in_progress", "complete"} : ExternalStatus(status)

SpecRender == Init /\ [][NextRender]_vars

\* SpecStore: chat requests of one client, a little later or past the expiry
\* window, each with at most one failing call and a minute of wait for the
\* completion and for the connection of the save, with cleanup runs and
\* resets, all in flight at the same time
NextStore ==
  \E p \in Procs :
    \/ /\ hist.steps < MaxStoreRequests
       /\ \E u \in {UPrice} \cup BlankUtterances, fault \in Faults :
            ChatRequestArrive(p, "c1", u, fault)
    \/ \E d \in {0, ExpiryMinutes + 1} : ChatRequestLoad(p, d)
    \/ ChatRequestCompute(p, 1, LAsk)
    \/ ChatRequestSave(p, 1)
    \/ hist.steps < MaxStoreRequests /\ CleanupCutoff(p, 0)
    \/ CleanupDelete(p, FALSE)
    \/ hist.steps < MaxStoreRequests /\ ResetArrive(p, "c1", Uid)
    \/ \E fault \in BOOLEAN : ResetDelete(p, fault)
    \/ ResponseArrives(p)

SpecStore == Init /\ [][NextStore]_vars

\* SpecCleanup: chat requests of two clients, cleanup runs, failing or not, and
\* resets of one user id, all in flight at the same time; the last request of a
\* run is a cleanup run
NextCleanup ==
  \E p \in Procs :
    \/ /\ hist.steps < MaxRequests
       /\ \E c \in Clients : ChatRequestArrive(p, c, UPrice, "none")
    \/ \E d \in {0, ExpiryMinutes + 1} : ChatRequestLoad(p, d)
    \/ ChatRequestCompute(p, 0, LAsk)
    \/ ChatRequestSave(p, 0)
    \/ \E d \in {0, ExpiryMinutes + 1} : CleanupCutoff(p, d)
    \/ \E fault \in BOOLEAN : CleanupDelete(p, fault)
    \/ hist.steps < MaxRequests /\ \E c \in Clients : ResetArrive(p, c, Uid)
    \/ ResetDelete(p, FALSE)
    \/ ResponseArrives(p)

SpecCleanup == Init /\ [][NextCleanup]_vars

\* SpecSweep: chat turns of one user and cleanup runs in flight at the same time
NextSweep ==
  \E p \in Procs :
    \/ hist.steps < MaxRequests /\ \E d \in {0, ExpiryMinutes} : ChatLoad(p, d)
    \/ ChatCompute(p, 0, UOk, LPlain)
    \/ \E ds \in {0, 1} : ChatSave(p, ds)
    \/ hist.steps < MaxRequests /\ \E d \in {0, 1} : CleanupCutoff(p, d)
    \/ CleanupDelete(p, FALSE)

SpecSweep == Init /\ [][NextSweep]_vars

\* SpecRows: load_memory on a row with NULL or missing columns, within and past
\* the expiry window
NextRows == \E d \in {1, ExpiryMinutes + 1} : LoadRowStep(d)

SpecRows == InitRows /\ [][NextRows]_vars

\* SpecHistory: add_interaction called until the cap on interactions is exceeded
NextHistory == \E u \in FactUtterances : AddInteractionLong(u)

SpecHistory == Init /\ [][NextHistory]_vars

---------------------------------------------------------------------------
(* Properties *)

\* the record the store holds for the session's user id
Persisted == store[Uid][1].memory

Timestamps(attempts) == [i \in 1..Len(attempts) |-> attempts[i].timestamp]

\* every two entries of a sequence of times are at least gap apart
Spaced(times, gap) ==
  \A i, j \in 1..Len(times) : i < j => times[j] - times[i] >= gap

\* C1: when chat turns of one user id overlap and all of them have answered, the
\* persisted record holds the interaction of every one of them (no simulated
\* click takes part, and the turns are fewer than the cap on interactions).
C1_BothInteractionsPersisted ==
  (/\ hist.simulated = 0
   /\ hist.turns # <<>>
   /\ Len(hist.turns) <= MaxInteractions)
  => /\ store[Uid] # <<>>
     /\ Len(Persisted.interactions) = Len(hist.turns)
     /\ \A i \in 1..Len(hist.turns) : hist.turns[i] \in Range(Persisted.interactions)

\* C2: no add_interaction or record_cta_attempt call moves buyer_stage of the
\* working record to an earlier stage of browsing < interested < considering < ready.
C2_StageNeverRegresses ==
  [][StageRank(mem'.buyer_stage) >= StageRank(mem.buyer_stage)]_vars

\* a record that reached "ready" and went through an add_interaction call after a
\* recorded CTA attempt
C2_Witness ==
  /\ mem.buyer_stage = "ready"
  /\ last.op = "add_interaction"
  /\ Len(mem.cta_attempts) >= 1
  /\ Len(mem.interactions) >= 2

\* C3: engagement_level of the working record starts in 1..5, and every call
\* leaves it in 1..5 and not below what it was.
C3_EngagementBoundedMonotonic ==
  /\ mem.engagement_level \in 1..5
  /\ [][/\ mem'.engagement_level \in 1..5
        /\ mem'.engagement_level >= mem.engagement_level]_vars

\* a record at level 5 whose last utterance would have raised the level further
C3_Witness ==
  /\ mem.engagement_level = 5
  /\ last.op = "add_interaction"
  /\ Len(mem.interactions) >= 3
  /\ \E u \in Utterances :
       /\ mem.interactions[Len(mem.interactions)].user = u.text
       /\ EngagementScore20(u) >= 20

\* C4: the persisted buyer_stage and engagement_level of a user id never go down,
\* however chat turns and simulated CTA responses for that id interleave.
C4_PersistedNeverDecreases ==
  [][(store[Uid] # <<>>)
     => /\ store'[Uid] # <<>>
        /\ StageRank(store'[Uid][1].memory.buyer_stage)
             >= StageRank(store[Uid][1].memory.buyer_stage)
        /\ store'[Uid][1].memory.engagement_level
             >= store[Uid][1].memory.engagement_level]_vars

\* C5 as stated: over chat turns one after the other, the gate does not return
\* attempt = TRUE in two turns less than 5 minutes apart.
C5_GateTrueSpaced == Spaced(hist.gate_true_at, CooldownMinutes)

\* C5 as amended: over chat turns one after the other, no two attempts of the
\* persisted cta_attempts are less than 5 minutes apart (the gate itself may
\* return TRUE in two such turns when the first reply already held "render" or
\* "consult" and so no attempt was recorded).
C5_RecordedAttemptsSpaced ==
  store[Uid] # <<>> => Spaced(Timestamps(Persisted.cta_attempts), CooldownMinutes)

\* two attempts recorded exactly 5 minutes apart, and a turn in between or after
\* in which the gate returned TRUE without an attempt being recorded
C5_Witness ==
  /\ store[Uid] # <<>>
  /\ \E i, j \in 1..Len(Persisted.cta_attempts) :
       Persisted.cta_attempts[j].timestamp - Persisted.cta_attempts[i].timestamp
         = CooldownMinutes
  /\ Len(hist.gate_true_at) > Len(Persisted.cta_attempts)

\* C6: a gate query less than 5 minutes after the last record_cta_attempt call
\* returns (False, None), whatever the stage, engagement and interactions are.
C6_CooldownRefuses ==
  (/\ last.op = "should_attempt_cta"
   /\ hist.record_at # None
   /\ now - hist.record_at[1] < CooldownMinutes)
  => last.gate = <<FALSE, "None">>

\* a query within the cooldown on a record that a stage rule would serve and
\* that has one attempt only, so the refusal is the cooldown's
C6_Witness ==
  /\ last.op = "should_attempt_cta"
  /\ hist.record_at # None
  /\ now - hist.record_at[1] \in 1..(CooldownMinutes - 1)
  /\ Len(mem.cta_attempts) = 1
  /\ mem.buyer_stage \in {"considering", "ready"}
  /\ mem.engagement_level >= 3
  /\ last.gate = <<FALSE, "None">>

\* C7: a chat turn whose record holds 2 or more attempts less than an hour old
\* gets no attempt from the gate, and no three persisted attempts span less
\* than one hour.
C7_RateCap ==
  store[Uid] # <<>> =>
    /\ (last.op = "chat" /\ last.gate[1])
       => Cardinality({i \in 1..Len(Persisted.cta_attempts) :
                         /\ now - Persisted.cta_attempts[i].timestamp < RateWindowMinutes
                         /\ ~(last.issued /\ i = Len(Persisted.cta_attempts))}) < RateCap
    /\ \A i, j, k \in 1..Len(Persisted.cta_attempts) :
         (i < j /\ j < k)
         => Persisted.cta_attempts[k].timestamp - Persisted.cta_attempts[i].timestamp
              >= RateWindowMinutes

\* a turn past the cooldown, on a record a stage rule serves, refused because two
\* attempts are less than an hour old
C7_Witness ==
  /\ store[Uid] # <<>>
  /\ last.op = "chat"
  /\ ~last.gate[1]
  /\ Len(Persisted.cta_attempts) = 2
  /\ now - Persisted.cta_attempts[1].timestamp < RateWindowMinutes
  /\ now - Persisted.cta_attempts[2].timestamp >= CooldownMinutes
  /\ Persisted.buyer_stage \in {"considering", "ready"}
  /\ Persisted.engagement_level >= 3
  /\ Len(Persisted.interactions) >= 4

\* C8: overlapping chat turns of one user id never both issue a CTA within the
\* cooldown, and every attempt a turn issued is in the persisted cta_attempts
\* (no simulated click takes part).
C8_NoDoubleNoLostAttempt ==
  (hist.simulated = 0 /\ store[Uid] # <<>>)
  => /\ \A i, j \in 1..Len(hist.issued) :
          i # j => \/ hist.issued[j].timestamp - hist.issued[i].timestamp >= CooldownMinutes
                   \/ hist.issued[i].timestamp - hist.issued[j].timestamp >= CooldownMinutes
     /\ \A i \in 1..Len(hist.issued) : hist.issued[i] \in Range(Persisted.cta_attempts)

\* the rules of C9 in the order the claim gives them
C9_Rules(m) ==
  CASE m.buyer_stage \in {"considering", "ready"} /\ m.engagement_level >= 3
         -> <<TRUE, "consult">>
    [] /\ ~(m.buyer_stage \in {"considering", "ready"} /\ m.engagement_level >= 3)
       /\ m.buyer_stage = "interested"
       /\ m.engagement_level >= 2
       /\ "space_concerns" \in DOMAIN m.key_facts
       /\ m.key_facts["space_concerns"] = TRUE
         -> <<TRUE, "render">>
    [] /\ ~(m.buyer_stage \in {"considering", "ready"})
       /\ ~(/\ m.buyer_stage = "interested"
            /\ "space_concerns" \in DOMAIN m.key_facts
            /\ m.key_facts["space_concerns"] = TRUE)
       /\ Len(m.interactions) >= 4
       /\ m.engagement_level >= 3
         -> <<TRUE, "consult">>
    [] OTHER -> <<FALSE, "None">>

\* C9: a gate query that neither the cooldown nor the rate cap refuses returns
\* consult for considering/ready at engagement >= 3, else render for interested
\* at engagement >= 2 with space concerns, else consult for 4 or more
\* interactions at engagement >= 3, else no attempt.
C9_StageRules ==
  (/\ last.op = "should_attempt_cta"
   /\ ~(mem.last_cta_attempt # None /\ now - mem.last_cta_attempt[1] < 5)
   /\ Cardinality({i \in 1..Len(mem.cta_attempts) :
                     now - mem.cta_attempts[i].timestamp < 60}) < 2)
  => last.gate = C9_Rules(mem)

\* the third rule serving a record of four interactions that is still browsing
C9_Witness ==
  /\ last.op = "should_attempt_cta"
  /\ last.gate = <<TRUE, "consult">>
  /\ mem.buyer_stage = "browsing"
  /\ Len(mem.interactions) >= 4

\* C10: a record_cta_attempt call with a response holding none of yes, sure, okay
\* appends one entry to cta_attempts, sets last_cta_attempt and changes no other
\* field of the record.
C10_NonAffirmativeFrame ==
  [][(/\ last'.op = "record_cta_attempt"
      /\ hist'.steps = hist.steps + 1
      /\ ~last'.affirmative)
     => /\ Len(mem'.cta_attempts) = Len(mem.cta_attempts) + 1
        /\ SubSeq(mem'.cta_attempts, 1, Len(mem.cta_attempts)) = mem.cta_attempts
        /\ mem'.cta_attempts[Len(mem'.cta_attempts)].timestamp = now'
        /\ mem'.cta_attempts[Len(mem'.cta_attempts)].type = last'.type
        /\ mem'.last_cta_attempt = Some(now')
        /\ mem'.buyer_stage = mem.buyer_stage
        /\ mem'.engagement_level = mem.engagement_level
        /\ mem'.render_requested = mem.render_requested
        /\ mem'.render_status = mem.render_status
        /\ mem'.contact_info = mem.contact_info
        /\ mem'.key_facts = mem.key_facts
        /\ mem'.interactions = mem.interactions]_vars

\* a consult attempt answered "not yet" recorded on a record that is past
\* browsing and not yet ready
C10_Witness ==
  /\ last.op = "record_cta_attempt"
  /\ ~last.affirmative
  /\ last.type = "consult"
  /\ mem.buyer_stage \in {"interested", "considering"}
  /\ ~mem.render_requested
  /\ Len(mem.cta_attempts) >= 1
  /\ mem.cta_attempts[Len(mem.cta_attempts)].response = "not yet"

\* C11: a record_cta_attempt call with a response holding yes, sure or okay sets
\* buyer_stage to "ready" for a consult, and render_requested to TRUE and
\* render_status to "info_needed" for a render; in both cases one attempt is
\* appended and last_cta_attempt is the time of the attempt.
C11_AffirmativeOutcome ==
  [][(/\ last'.op = "record_cta_attempt"
      /\ hist'.steps = hist.steps + 1
      /\ last'.affirmative)
     => /\ (last'.type = "consult") => mem'.buyer_stage = "ready"
        /\ (last'.type = "render")
           => (mem'.render_requested = TRUE /\ mem'.render_status = "info_needed")
        /\ Len(mem'.cta_attempts) = Len(mem.cta_attempts) + 1
        /\ SubSeq(mem'.cta_attempts, 1, Len(mem.cta_attempts)) = mem.cta_attempts
        /\ mem'.cta_attempts[Len(mem'.cta_attempts)].timestamp = now'
        /\ mem'.cta_attempts[Len(mem'.cta_attempts)].type = last'.type
        /\ mem'.last_cta_attempt = Some(now')]_vars

\* a render accepted on a record that an earlier accepted consult made ready
C11_Witness ==
  /\ last.op = "record_cta_attempt"
  /\ last.affirmative
  /\ last.type = "render"
  /\ mem.render_requested
  /\ mem.render_status = "info_needed"
  /\ mem.buyer_stage = "ready"
  /\ Len(mem.cta_attempts) >= 2
  /\ mem.cta_attempts[1].type = "consult"
  /\ mem.cta_attempts[1].response = "yes"

\* C12: once a key fact other than features has a value, no later utterance
\* changes or removes that value.
C12_ScalarFactsKept ==
  [][\A k \in (DOMAIN mem.key_facts) \ {"features"} :
       /\ k \in DOMAIN mem'.key_facts
       /\ mem'.key_facts[k] = mem.key_facts[k]]_vars

\* key_facts.features of a record, empty where the key is absent
FeaturesOf(m) == IF "features" \in DOMAIN m.key_facts THEN m.key_facts["features"] ELSE <<>>

\* C13: features never holds a feature twice, and every utterance leaves the
\* features it held where they were and appends the new ones after them.
C13_FeaturesAccumulate ==
  [][/\ Len(FeaturesOf(mem')) >= Len(FeaturesOf(mem))
     /\ SubSeq(FeaturesOf(mem'), 1, Len(FeaturesOf(mem))) = FeaturesOf(mem)
     /\ \A i, j \in 1..Len(FeaturesOf(mem')) :
          i # j => FeaturesOf(mem')[i] # FeaturesOf(mem')[j]]_vars

\* the second utterance names the tanning ledge again and heating for the first
\* time: the ledge stays first and single, heating comes last
C13_Witness ==
  /\ Len(mem.interactions) = 2
  /\ mem.interactions[1].user = UPrice.text
  /\ mem.interactions[2].user = URelax.text
  /\ FeaturesOf(mem) = <<"tanning ledge", "lighting", "heating">>

\* C14: interactions is never longer than the cap and holds the most recent
\* interactions appended, in the order they were appended.
C14_InteractionsCapped ==
  /\ Len(mem.interactions) <= MaxInteractions
  /\ mem.interactions =
       IF Len(hist.turns) > MaxInteractions
       THEN [i \in 1..MaxInteractions |-> hist.turns[Len(hist.turns) - MaxInteractions + i]]
       ELSE hist.turns

\* one interaction more than the cap was appended and the first one is gone
C14_Witness ==
  /\ Len(hist.turns) = MaxInteractions + 1
  /\ Len(mem.interactions) = MaxInteractions
  /\ mem.interactions[1] = hist.turns[2]
  /\ mem.interactions[1] # hist.turns[1]

\* C15: a contact field that holds a non-empty value keeps that value through
\* every operation on the record.
C15_ContactFirstWins ==
  [][\A f \in Range(RequiredFields) :
       Truthy(mem.contact_info, f)
         => (f \in DOMAIN mem'.contact_info /\ mem'.contact_info[f] = mem.contact_info[f])]_vars

\* the contact fields the user's turns after the render CTA was accepted carry
Supplied(f) ==
  \E i \in 1..Len(hist.turns) :
    /\ hist.record_at # None
    /\ hist.turns[i].timestamp > hist.record_at[1]
    /\ IF f = "photo"
       THEN /\ AnyIn(UtteranceOf(hist.turns[i].user), {"photo", "picture", "image"})
            /\ AnyIn(UtteranceOf(hist.turns[i].user), {"sent", "attached", "here"})
       ELSE UtteranceOf(hist.turns[i].user)[f] # None

\* C16: once the user's chat turns after the accepted render CTA have carried
\* all four contact fields, the render stage of the stored record is complete.
C16_CompleteOnceSupplied ==
  (/\ store[Uid] # <<>>
   /\ Persisted.render_requested
   /\ last.op = "chat"
   /\ \A f \in Range(RequiredFields) : Supplied(f))
    => get_render_workflow_stage(Persisted) = "complete"

\* the step is the upsert and the reply of a chat turn
ChatAnswers ==
  \E p \in Procs : pc[p] = "computed" /\ local[p].op = "chat" /\ pc'[p] = "idle"

\* the reply of the last chat turn holds the request for contact details
RequestEmitted ==
  /\ last.op = "chat"
  /\ \E i \in 1..Len(last.reply) :
       last.reply[i].kind \in {"contact_collection_phrase", "still_need", "field_message"}

\* C17: the chat turn that follows the turn whose reply requested the contact
\* details moves a record in info_needed to collecting_info.
C17_TurnBasedTransition ==
  [][(/\ store[Uid] # <<>>
      /\ get_render_workflow_stage(Persisted) = "info_needed"
      /\ RequestEmitted
      /\ ChatAnswers)
       => get_render_workflow_stage(Persisted') = "collecting_info"]_vars

\* C18: a record in stage complete is in stage complete after every operation.
C18_CompleteIsTerminal ==
  [][get_render_workflow_stage(mem) = "complete"
       => get_render_workflow_stage(mem') = "complete"]_vars

\* C19: render_status is "complete" only on a record whose four contact fields
\* are non-empty.
C19_CompleteHasAllFields ==
  mem.render_status = "complete"
    => \A f \in Range(RequiredFields) : Truthy(mem.contact_info, f)

\* C20: while the stored render_status of the user is "in_progress", the step
\* with which a chat turn answers (its save_memory) leaves the stored
\* render_status and contact_info as they were.
C20_InProgressWaits ==
  [][(/\ store[Uid] # <<>>
      /\ Persisted.render_status = "in_progress"
      /\ ChatAnswers)
       => /\ Persisted'.render_status = "in_progress"
          /\ Persisted'.contact_info = Persisted.contact_info]_vars

\* a turn carrying a name and an email address was taken on a record in progress
C20_Witness ==
  /\ store[Uid] # <<>>
  /\ last.op = "chat"
  /\ Persisted.render_status = "in_progress"
  /\ get_render_workflow_stage(Persisted) = "in_progress"
  /\ Persisted.interactions[Len(Persisted.interactions)].user = UNameEmail.text
  /\ DOMAIN Persisted.contact_info = {}

\* the utterance of the interaction appended last
LastUtterance(m) == UtteranceOf(m.interactions[Len(m.interactions)].user)

\* C30: an add_interaction call moves buyer_stage from browsing to interested
\* exactly when the utterance holds a specific or a commitment signal, from
\* interested to considering exactly when it holds a timeline signal or three
\* key facts are known, from considering to ready exactly when it holds a ready
\* signal, and in every other case leaves buyer_stage as it was.
C30_OneStagePerUtterance ==
  [][(last'.op = "add_interaction" /\ hist'.steps = hist.steps + 1)
       => mem'.buyer_stage =
            IF mem.buyer_stage = "browsing"
               /\ \E k \in {"size", "cost", "price", "timeline", "process", "how long",
                            "when", "schedule", "ready", "interested", "want", "need",
                            "planning", "thinking about"} : k \in LastUtterance(mem').has
            THEN "interested"
            ELSE IF mem.buyer_stage = "interested"
                    /\ \/ \E k \in {"timeline", "schedule", "when can", "how soon"} :
                            k \in LastUtterance(mem').has
                       \/ Cardinality(DOMAIN mem'.key_facts) >= 3
            THEN "considering"
            ELSE IF mem.buyer_stage = "considering"
                    /\ \E k \in {"ready", "let's do", "schedule", "visit", "consult"} :
                         k \in LastUtterance(mem').has
            THEN "ready"
            ELSE mem.buyer_stage]_vars

\* the first utterance holds a signal of each of the three rules and moves the
\* record one stage only
C30_Witness ==
  /\ last.op = "add_interaction"
  /\ Len(mem.interactions) = 1
  /\ mem.interactions[1].user = UVisit.text
  /\ {"when can", "schedule", "visit"} \subseteq UVisit.has
  /\ mem.buyer_stage = "interested"

\* the step with which the chat request of process p answers its caller
\* once it got past the test of the message
ChatRequestAnswers(p) ==
  /\ pc[p] \in {"loaded", "computed"}
  /\ local[p].op = "chat_request"
  /\ pc'[p] \in {"idle", "reply"}

\* the step in which the chat request of process p runs load_memory
ChatRequestLoads(p) ==
  /\ pc[p] = "arrived"
  /\ pc'[p] = "loaded"
  /\ local'[p].op = "chat_request"

\* C21: a chat request whose store read fails is answered with a failure and
\* leaves the table as it was.
C21_ReadFailureSurfaced ==
  [][\A p \in Procs :
       (ChatRequestAnswers(p) /\ local[p].fault = "read")
         => (last'.resp.status # 200 /\ store' = store)]_vars

\* C22: a success reply carries the buyer_stage, engagement_level and render
\* stage of the record stored for the user.
C22_SuccessMeansStored ==
  (last.op = "chat" /\ last.resp.status = 200)
    => /\ store[last.id] # <<>>
       /\ store[last.id][1].memory.buyer_stage = last.resp.buyer_stage
       /\ store[last.id][1].memory.engagement_level = last.resp.engagement_level
       /\ get_render_workflow_stage(store[last.id][1].memory) = last.resp.render_status

\* C23: a chat request whose completion call fails is answered with status 500
\* and a try-again text, carries no bot text, and its answer leaves the table,
\* and with it the interactions of the user, as it was.
C23_CompletionFailure ==
  [][\A p \in Procs :
       (ChatRequestAnswers(p) /\ local[p].fault = "completion")
         => /\ last'.resp.status = 500
            /\ last'.resp.error
                 = "Sorry, I'm having trouble connecting right now. Please try again."
            /\ last'.resp.reply = <<>>
            /\ store' = store]_vars

\* the completion call failed on a turn of a user whose record holds one
\* interaction, and it still holds that one
C23_Witness ==
  /\ last.op = "chat"
  /\ last.fault = "completion"
  /\ last.resp.status = 500
  /\ store[Uid] # <<>>
  /\ Len(store[Uid][1].memory.interactions) = 1
  /\ last.resp.loaded = Some(store[Uid][1].memory)

\* C24: a chat request with an empty message or one of white space only never
\* gets as far as load_memory: the step that takes the request in answers it
\* with status 400, creates no user id (the session of every client is as it
\* was and the answer names no id), holds no loaded record, and leaves the
\* requests in flight and the table as they were.
C24_BlankRejected ==
  [][/\ \A p \in Procs :
          (pc'[p] \in {"arrived", "loaded"} /\ local'[p].op = "chat_request")
            => UtteranceOf(local'[p].user).n > 0
     /\ (/\ hist'.steps = hist.steps + 1
         /\ last'.op = "chat"
         /\ pc' = pc)
          => /\ UtteranceOf(last'.user).n = 0
             /\ last'.resp.status = 400
             /\ last'.resp.loaded = None
             /\ "id" \notin DOMAIN last'
             /\ session' = session
             /\ local' = local
             /\ store' = store]_vars

\* a message of spaces sent by a client on its first visit was rejected: the
\* session of the client holds no user id and the table holds no row
C24_Witness ==
  /\ last.op = "chat"
  /\ last.user = UBlank.text
  /\ last.resp.status = 400
  /\ last.fault = "none"
  /\ session[last.client] = None
  /\ \A c \in Clients : session[c] = None
  /\ \A id \in UserIds : store[id] = <<>>
  /\ \A p \in Procs : pc[p] = "idle"

\* C25: a load that reaches the table returns the stored record when the row
\* exists and its last_updated is within the expiry window, and otherwise a
\* record of defaults: browsing, engagement 1, nothing requested, every
\* collection empty.
C25_LoadPersistedOrDefault ==
  [][\A p \in Procs :
       (ChatRequestLoads(p) /\ local'[p].fault # "read")
         => local'[p].loaded =
              (IF /\ store[local'[p].id] # <<>>
                  /\ now' - store[local'[p].id][1].last_updated <= 90 * 24 * 60
               THEN store[local'[p].id][1].memory
               ELSE [interactions |-> <<>>, key_facts |-> EmptyDict,
                     buyer_stage |-> "browsing", engagement_level |-> 1,
                     render_requested |-> FALSE, render_status |-> "None",
                     contact_info |-> EmptyDict, cta_attempts |-> <<>>,
                     last_cta_attempt |-> None])]_vars

\* a request found a row older than the window and was handed the defaults
\* while the row with its interaction is still in the table
C25_Witness ==
  \E p \in Procs :
    /\ pc[p] = "loaded"
    /\ local[p].op = "chat_request"
    /\ local[p].id = Uid
    /\ local[p].fault = "none"
    /\ local[p].loaded = default_memory
    /\ store[Uid] # <<>>
    /\ Len(store[Uid][1].memory.interactions) >= 1
    /\ now - store[Uid][1].last_updated > ExpiryMinutes

\* the last request answered was a successful chat turn whose load_memory
\* found a row of its user and took the branch of an expired row, and the row
\* the turn stored is in the table
ExpiredTurn ==
  /\ last.op = "chat"
  /\ last.fault = "none"
  /\ last.resp.status = 200
  /\ last.expired
  /\ store[last.id] # <<>>

\* the step is the DELETE of the cleanup run of process p, and it reached the
\* table
CleanupStep(p) ==
  /\ pc[p] = "cutoff"
  /\ local[p].op = "cleanup"
  /\ pc'[p] = "idle"
  /\ ~last'.fault

\* C26 as stated: a cleanup run after a chat turn that loaded an expired record
\* removes the row of that record.
C26_SweepRemovesRowAfterTurn ==
  [][\A p \in Procs :
       (ExpiredTurn /\ CleanupStep(p)) => store'[last.id] = <<>>]_vars

\* C26: a chat request on a row older than the expiry window is handed what a
\* request of an id without a row is handed, the defaults; its upsert stores
\* the record of the turn with last_updated at the time of the upsert and
\* keeps created_at of the row; a cleanup run after that turn whose cutoff is
\* not past the new last_updated keeps the row.
C26_ExpiredTurnRefreshesRow ==
  [][\A p \in Procs :
       /\ (/\ ChatRequestLoads(p)
           /\ local'[p].fault = "none"
           /\ store[local'[p].id] # <<>>
           /\ now' - store[local'[p].id][1].last_updated > ExpiryMinutes)
            => /\ local'[p].loaded = default_memory
               /\ local'[p].loaded
                    = load_memory([store EXCEPT ![local'[p].id] = <<>>], local'[p].id, now')
       /\ (/\ pc[p] = "computed"
           /\ ChatRequestAnswers(p)
           /\ local[p].fault = "none")
            => /\ store'[local[p].id] # <<>>
               /\ store'[local[p].id][1].memory = local[p].res[1].mem
               /\ store'[local[p].id][1].last_updated = now'
               /\ store'[local[p].id][1].created_at
                    = (IF store[local[p].id] # <<>> THEN store[local[p].id][1].created_at
                       ELSE now')
       /\ (/\ ExpiredTurn
           /\ CleanupStep(p)
           /\ local[p].cutoff <= store[last.id][1].last_updated)
            => (store'[last.id] # <<>> /\ store'[last.id] = store[last.id])]_vars

\* a cleanup run right after a chat turn that had met an expired row found
\* nothing to delete: the row of the user was created before the cutoff of the
\* run, more than the window before it was last updated, and holds the one
\* interaction of the turn that refreshed it
C26_Witness ==
  /\ last.op = "cleanup"
  /\ ~last.fault
  /\ last.cleaned = 0
  /\ last.after_expired = Some(Uid)
  /\ store[Uid] # <<>>
  /\ store[Uid][1].created_at < last.cutoff
  /\ store[Uid][1].created_at + ExpiryMinutes < store[Uid][1].last_updated
  /\ last.cutoff <= store[Uid][1].last_updated
  /\ Len(store[Uid][1].memory.interactions) = 1

\* C27: a cleanup run takes as cutoff the time at which it starts minus the
\* expiry window; its DELETE, when it reaches the table, deletes the rows
\* whose last_updated is before the cutoff and no other row, and the run
\* returns the number of rows deleted; a second run with the same cutoff
\* right after it deletes nothing and returns 0.
C27_CleanupExact ==
  [][\A p \in Procs :
       /\ (pc[p] = "idle" /\ pc'[p] = "cutoff")
            => local'[p].cutoff = now' - 90 * 24 * 60
       /\ CleanupStep(p)
            => /\ \A id \in UserIds :
                    store'[id] = IF /\ store[id] # <<>>
                                    /\ store[id][1].last_updated < local[p].cutoff
                                 THEN <<>> ELSE store[id]
               /\ last'.cleaned
                    = Cardinality({id \in UserIds :
                                     /\ store[id] # <<>>
                                     /\ store[id][1].last_updated < local[p].cutoff})
               /\ (last'.rerun # None) => (last'.cleaned = 0 /\ store' = store)]_vars

\* the second of two runs at the same time returned 0 after the first deleted
\* the expired row of one user and kept the fresh row of the other
C27_Witness ==
  /\ last.op = "cleanup"
  /\ ~last.fault
  /\ last.rerun = Some(1)
  /\ last.cleaned = 0
  /\ \E a, b \in UserIds : store[a] = <<>> /\ store[b] # <<>> /\ store[b][1].last_updated = now

\* C28: the upsert of a chat turn leaves the row of its user in the table with
\* the record of the turn, whatever a cleanup run did before it, and a cleanup
\* run deletes no row whose last_updated is within the expiry window at the
\* time of the DELETE.
C28_SweepSparesLiveRow ==
  [][/\ \A p \in Procs :
          (pc[p] = "computed" /\ local[p].op = "chat" /\ pc'[p] = "idle")
            => /\ store'[Uid] # <<>>
               /\ store'[Uid][1].memory = local[p].memory
               /\ store'[Uid][1].last_updated = now'
     /\ \A id \in UserIds :
          (store[id] # <<>> /\ store'[id] = <<>>)
            => store[id][1].last_updated < now' - ExpiryMinutes]_vars

\* a cleanup run took its cutoff while the row had expired, a turn refreshed the
\* row before the DELETE, and the DELETE left the row in place
C28_Witness ==
  /\ last.op = "cleanup"
  /\ last.cleaned = 0
  /\ \A p \in Procs : pc[p] = "idle"
  /\ store[Uid] # <<>>
  /\ store[Uid][1].created_at < last.cutoff
  /\ store[Uid][1].last_updated >= last.cutoff
  /\ store[Uid][1].created_at + ExpiryMinutes < store[Uid][1].last_updated

\* C29: a load of a row within the expiry window returns, for every field, the
\* stored value where the column is there and not NULL and the default of
\* the field where it is not.
C29_BackfillKeepsStored ==
  (/\ last.op = "load_memory"
   /\ ("last_updated" \in DOMAIN store[Uid][1] /\ store[Uid][1]["last_updated"] # None)
        => now - store[Uid][1]["last_updated"][1] <= ExpiryMinutes)
    => \A k \in DOMAIN default_memory :
         mem[k] = IF k \in DOMAIN store[Uid][1] /\ store[Uid][1][k] # None
                  THEN store[Uid][1][k][1] ELSE default_memory[k]

\* the key facts observed in some utterance: every entry but an empty features list
ObservedFacts(m) ==
  {k \in DOMAIN m.key_facts : k = "features" => Len(m.key_facts[k]) > 0}

\* C35: an utterance without a scheduling phrase moves a record from interested
\* to considering exactly when the record holds three or more observed key
\* facts.
C35_ThreeObservedFacts ==
  [][(/\ last'.op = "add_interaction"
      /\ hist'.steps = hist.steps + 1
      /\ mem.buyer_stage = "interested"
      /\ LastUtterance(mem').has \cap {"timeline", "schedule", "when can", "how soon"} = {})
       => (mem'.buyer_stage = "considering" <=> Cardinality(ObservedFacts(mem')) >= 3)]_vars

\* C36: an add_interaction call sets engagement_level to the smaller of 5 and
\* the old level plus the whole part of the score, the score being
\* min(0.5 * question marks, 1) + min(0.3 * domain terms, 1) + min(words / 20, 1);
\* the level rises by 3 at most and not at all when the score is below 1.
C36_EngagementFormula ==
  [][(last'.op = "add_interaction" /\ hist'.steps = hist.steps + 1)
       => \E q \in {LastUtterance(mem').q}, n \in {LastUtterance(mem').n},
             terms \in {Cardinality(LastUtterance(mem').has
                                      \cap {"size", "cost", "feature", "timeline", "process"})} :
          \E score20 \in {(IF 10 * q < 20 THEN 10 * q ELSE 20)
                          + (IF 6 * terms < 20 THEN 6 * terms ELSE 20)
                          + (IF n < 20 THEN n ELSE 20)} :
             /\ mem'.engagement_level
                  = IF mem.engagement_level + (score20 \div 20) < 5
                    THEN mem.engagement_level + (score20 \div 20) ELSE 5
             /\ mem'.engagement_level - mem.engagement_level <= 3
             /\ score20 < 20 => mem'.engagement_level = mem.engagement_level]_vars

\* the first utterance, with two question marks, five domain terms and 25
\* words, scores 3 and takes the level from 1 to 4
C36_Witness ==
  /\ last.op = "add_interaction"
  /\ Len(mem.interactions) = 1
  /\ mem.interactions[1].user = UDeep.text
  /\ UDeep.q = 2
  /\ mem.engagement_level = 4

CtaParts == {"cta_consult", "cta_render", "cta_empty"}

\* C38: a chat turn that records a CTA attempt returns a reply that holds the
\* CTA message selected for it; the stall restart and the follow-up leave it in
C38_RecordedCtaInReply ==
  (last.op = "chat" /\ last.issued)
    => \E i \in 1..Len(last.reply) : last.reply[i].kind \in CtaParts

\* C34: the reply of a chat turn taken while the render stage of the record is
\* info_needed holds the request that names all four contact fields: the phrase
\* drawn for four missing fields, or a message that lists the four of them
C34_AllFieldsRequested ==
  [][\A p \in Procs :
       (/\ pc[p] = "loaded" /\ local[p].op = "chat" /\ pc'[p] = "computed"
        /\ get_render_workflow_stage(local[p].memory) = "info_needed")
         => \E i \in 1..Len(local'[p].reply) :
              \/ local'[p].reply[i].kind = "contact_collection_phrase"
              \/ /\ local'[p].reply[i].kind = "still_need"
                 /\ Range(local'[p].reply[i].arg) = Range(RequiredFields)]_vars

\* the filter of export_render_requests on a record
export_selects(m) == m.render_requested /\ m.render_status = "complete"

\* C40: a record whose render workflow stage is complete has render_requested
\* set and render_status complete, so the export of completed renders selects it
C40_CompleteIsExported ==
  get_render_workflow_stage(mem) = "complete" => export_selects(mem)

\* C33: the gate decision of a chat turn is the decision on the record to which
\* this turn's utterance has been applied by the fact extractor and the stage
\* and engagement evaluators
C33_GateOnUpdatedRecord ==
  [][\A p \in Procs :
       (pc[p] = "loaded" /\ local[p].op = "chat" /\ pc'[p] = "computed")
         => local'[p].gate =
              should_attempt_cta(
                add_interaction(local[p].memory, LastUtterance(local'[p].memory),
                                <<>>, now'),
                now')]_vars

\* C32: two calls of build_context_summary on the same record, one after the
\* other at different times, return the same text
C32_SummaryDeterministic ==
  [][(/\ last.op = "build_context_summary"
      /\ last'.op = "build_context_summary"
      /\ mem' = mem)
       => last'.reply = last.reply]_vars

\* C31: two selections for the same intent, one right after the other, return
\* different variants
C31_NoImmediateRepeat ==
  [][(last.op = "select" /\ last'.op = "select" /\ last'.type = last.type)
       => last'.reply # last.reply]_vars

OfferEmitted(reply) == \E i \in 1..Len(reply) : reply[i].kind = "partial_info_offer"

\* C37: the reduced name-and-email offer is emitted only by a workflow turn in
\* stage collecting_info that leaves one or two fields missing on a record with
\* engagement level 2 or more and no contact field captured
C37_OfferOnlyWhenNothingCaptured ==
  [][(/\ last'.op = "handle_render_workflow" /\ hist'.steps = hist.steps + 1
      /\ OfferEmitted(last'.reply))
       => /\ get_render_workflow_stage(mem) = "collecting_info"
          /\ Len(get_missing_contact_fields(mem')) \in {1, 2}
          /\ mem'.engagement_level >= 2
          /\ \A f \in Range(RequiredFields) : ~Truthy(mem'.contact_info, f)]_vars

\* a workflow turn in collecting_info on an engaged record with two fields
\* captured and two missing has asked for the missing two and made no offer
C37_Witness ==
  /\ last.op = "handle_render_workflow"
  /\ mem.engagement_level >= 2
  /\ get_render_workflow_stage(mem) = "collecting_info"
  /\ Len(get_missing_contact_fields(mem)) = 2
  /\ ~OfferEmitted(last.reply)
  /\ \E i \in 1..Len(last.reply) :
       last.reply[i].kind = "still_need" /\ Len(last.reply[i].arg) = 2

\* C39: after any sequence of chat turns the stored record has render_requested
\* false and no render_status: a chat turn records its CTA as pending
C39_ChatNeverRequestsRender ==
  store[Uid] # <<>>
    => (~Persisted.render_requested /\ Persisted.render_status = "None")

\* a chat turn has issued and recorded a render CTA
C39_Witness ==
  /\ last.op = "chat" /\ last.issued /\ last.type = "render"
  /\ store[Uid] # <<>>
  /\ \E i \in 1..Len(Persisted.cta_attempts) :
       Persisted.cta_attempts[i].type = "render"
       /\ Persisted.cta_attempts[i].response = "pending"

====
